---- MODULE Spec2Model ----
(***************************************************************************)
(* Model of node-netezza: the connection pool (class Pool, specification   *)
(* Spec), one Connection and the server it talks to (class Connection,     *)
(* specification ConnectionSpec) and the decoding of data rows             *)
(* (parseDataRow and the test encoder createDataRowBuffer, specification   *)
(* RowSpec).  Each specification moves its own variables and holds the     *)
(* others at their initial values.                                         *)
(*                                                                         *)
(* The pool runs on the single-threaded JavaScript event loop.  A step of  *)
(* the model is one uninterrupted run of pool code: from a public call, a  *)
(* timer callback or the resumption of an awaited operation                *)
(* (conn.connect(), the probe query of validateConnection, the caller's    *)
(* query, the close promises of end()) up to the next such await or to the *)
(* settling of the call.                                                   *)
(*                                                                         *)
(* Connection objects in the entry map are named by their position in the  *)
(* map's insertion order, from 1; a reference to a Connection that is not  *)
(* in the map (it was removed from it and closed, or the caller has none)  *)
(* is 0, and a Connection under construction has no name yet.              *)
(* Time is kept as elapsed time: every timestamp t of the                  *)
(* source (createdAt, lastUsedAt, the instant a timer was armed) is held   *)
(* as Date.now() - t, advanced by Tick and saturating one past the         *)
(* threshold it is compared with.  ConnectionMetadata.useCount is written  *)
(* but never read by the pool and is left out.  Callers are                *)
(* interchangeable: a new call is always made by the lowest-numbered       *)
(* caller that has no call in progress and holds no Connection.            *)
(***************************************************************************)
EXTENDS Integers, Sequences, FiniteSets, TLC

\* ---- bounds of the model -------------------------------------------------
NumCallers == 3
ValidatingCallers == 2
MaxConns == 3
MaxPoolMax == 2
MaxEnds == 2
AcquireTimeout == 1
IdleTimeout == 0
ConnectionTimeout == 1

Callers == 1..NumCallers
Nobody == {}

\* Bounds of the Connection model: execute() calls made on the Connection,
\* those of them made while a handshake is in progress, connect() calls that
\* open a socket, version proposals the server answers
\* with a downgrade request.
NumQueries == 2
MaxEarlyQueries == 1
MaxConnects == 1
MaxProposals == 2

\* Bounds of the row codec: columns of a row (more than 8, so that the
\* presence bitmap has a second byte).
MaxColumns == 9
\* Characters of the SQL text and parameters of one execute(sql, params).
MaxSql == 3
MaxParams == 2
\* Entries by which release() calls on Connections that are not in use may make
\* the available list longer than the map.
MaxSurplus == 1
\* Calls of readBytes, the largest count asked for, the bytes the server sends
\* and the largest chunk one 'data' event delivers.
NumReads == 3
MaxCount == 3
MaxBytes == 4
MaxChunk == 2

\* ---- protocol constants ----------------------------------------------------
CP_VERSION_2 == 2
CP_VERSION_6 == 6
AUTH_REQ_OK == 0
AUTH_REQ_KRB5 == 2
AUTH_REQ_PASSWORD == 3
AUTH_REQ_MD5 == 5
AUTH_REQ_SHA256 == 6
MESSAGE_TYPE_AUTHENTICATION == 82
MESSAGE_TYPE_BACKEND_KEY_DATA == 75
MESSAGE_TYPE_COMMAND_COMPLETE == 67
MESSAGE_TYPE_DATA_ROW == 68
MESSAGE_TYPE_ERROR_RESPONSE == 69
MESSAGE_TYPE_READY_FOR_QUERY == 90
MESSAGE_TYPE_ROW_DESCRIPTION == 84
TRANSACTION_STATUS_IDLE == 73
TRANSACTION_STATUS_IN_BLOCK == 84
\* The single-byte replies of the handshake the code compares with: 0x4E 'N',
\* 0x4D 'M', 0x53 'S', 0x45 'E'; 0x30 is '0'; OtherByte is a byte none of the
\* comparisons of the code knows.
AckN == 78
AckM == 77
AckS == 83
AckE == 69
Digit0 == 48
OtherByte ==
  CHOOSE b \in 0..255 :
    b \notin {AckN, AckM, AckS, AckE, MESSAGE_TYPE_AUTHENTICATION, MESSAGE_TYPE_BACKEND_KEY_DATA,
              MESSAGE_TYPE_COMMAND_COMPLETE, MESSAGE_TYPE_DATA_ROW, MESSAGE_TYPE_READY_FOR_QUERY,
              MESSAGE_TYPE_ROW_DESCRIPTION}

VARIABLES
  options,               \* this.options: min, max, validateOnBorrow, validateOnReturn
  connections,           \* Map<Connection, ConnectionMetadata> in insertion order:
                         \*   per entry the time since createdAt and lastUsedAt, and
                         \*   the Connection's closed flag
  availableConnections,  \* Connection[]
  pendingAcquires,       \* PendingAcquire[]: the caller whose request each entry is
  timers,                \* callers whose acquire deadline timer is armed
  waited,                \* time elapsed since the caller's timer was armed
  evictionTimer,         \* this.evictionTimer is set
  closing,
  closed,
  initInFlight,          \* createConnection() promises of initialize() not yet settled
  backfillInFlight,      \* createConnection() promises of backfillConnections() not yet settled
  pc,                    \* where each caller's current call is suspended
  op,                    \* the public call the caller is in: "none", "acquire", "execute", "release"
  cconn,                 \* the Connection the caller holds or is being given
  result,                \* what a call suspended inside release() settles with
  queries,               \* number of times Pool.execute ran the caller's query in this call
  endsInFlight,          \* end() calls suspended at await Promise.allSettled
  last                   \* the call that settled in the step just taken (history)

\* One Connection and the server at the other end of its socket.
VARIABLES
  securityLevel,         \* Connection.options.securityLevel
  socket,                \* this.socket is set
  buffer,                \* this.buffer: what arrived and was not read yet
  connectionClosed,      \* Connection.closed
  transactionStatus,     \* this.transactionStatus
  hsVersion,             \* this.hsVersion, 0 while undefined
  version,               \* the local variable version of negotiateHandshake
  phase,                 \* where the handshake started by connect() is suspended
  connectPromise,        \* the promise connect() returned: state and rejection error
  written,               \* every message passed to socket.write, in order (history)
  served,                \* how many of them the server has answered
  broken,                \* the socket has emitted 'error'
  connects,              \* number of connect() calls that opened a socket
  calls,                 \* the execute() calls: position, fields seen, outcome
  did                    \* whether the step just taken was a call of close() (history)

\* The row codec: parseDataRow applied to a buffer built by createDataRowBuffer.
VARIABLES
  rowMode,               \* options.rowMode
  fields,                \* FieldDescription[]: name and typeOid of each column
  values,                \* the values handed to createDataRowBuffer
  data,                  \* the Buffer it returned, once it was called
  row                    \* what parseDataRow returned for it, once it was called, and
                         \*   the values its local dataIdx took, column by column

\* One call of Connection.execute(sql, params) on a connected Connection.
VARIABLES
  revision,              \* which of the two revisions of connection.ts runs
  sql,                   \* the argument sql, a sequence of characters
  params,                \* the argument params; <<>> when absent or empty
  sentMessages           \* the messages the call passed to sendRawMessage, in order

\* Connection.readBytes at byte level; this.socket, this.buffer and the
\* 'error' event of the socket are the variables socket, buffer and broken.
VARIABLES
  arrived,               \* number of bytes the 'data' events have delivered so far
  ended,                 \* the socket has emitted 'end'
  reads,                 \* the readBytes calls: count, position, result or error
  waiters,               \* calls suspended in waitForData, in listener order
  consumed               \* number of bytes readBytes calls have returned (history)

poolVars == <<options, connections, availableConnections, pendingAcquires, timers, waited,
              evictionTimer, closing, closed, initInFlight, backfillInFlight,
              pc, op, cconn, result, queries, endsInFlight, last>>

connectionVars == <<securityLevel, socket, buffer, connectionClosed, transactionStatus,
                    hsVersion, version, phase, connectPromise, written, served, broken,
                    connects, calls, did>>

rowVars == <<rowMode, fields, values, data, row>>

statementVars == <<revision, sql, params, sentMessages>>

readerVars == <<arrived, ended, reads, waiters, consumed>>

vars == <<poolVars, connectionVars, rowVars, statementVars, readerVars>>

\* ---- helpers -------------------------------------------------------------
Range(s) == {s[i] : i \in 1..Len(s)}

Count(s, x) == Cardinality({i \in 1..Len(s) : s[i] = x})

\* indexOf(x) / splice(index, 1): the sequence without the first occurrence of x.
RECURSIVE SpliceFirst(_, _)
SpliceFirst(s, x) ==
  IF s = <<>> THEN <<>>
  ELSE IF Head(s) = x THEN Tail(s)
       ELSE <<Head(s)>> \o SpliceFirst(Tail(s), x)

\* The sequence s without its element at position g.
DropAt(s, g) == [i \in 1..(Len(s) - 1) |-> IF i < g THEN s[i] ELSE s[i + 1]]

\* The name, once entry g has left the map, of the Connection named n before.
Renamed(n, g) == IF n = g THEN 0 ELSE IF n > g THEN n - 1 ELSE n

\* The callers whose call settled in the step just taken (Nobody if none did)
\* and what it settled with.
Settled(cs, o) == [who |-> cs, out |-> o]

NewEntry == [createdAgo |-> 0, lastUsedAgo |-> 0, closed |-> FALSE]

\* The pool's entry map and available list together with the callers'
\* references, as one value: the code between two awaits works on these.
Pool(conns, avail, cc) == [conns |-> conns, avail |-> avail, cc |-> cc]

Now == Pool(connections, availableConnections, cconn)

\* ---- getStats ------------------------------------------------------------
getStats ==
  [total     |-> Len(connections),
   available |-> Len(availableConnections),
   inUse     |-> Len(connections) - Len(availableConnections),
   pending   |-> Len(pendingAcquires),
   min       |-> options.min,
   max       |-> options.max]

\* ---- Connection.close, as the pool uses it ---------------------------------
\* close() destroys the socket and sets the closed flag before it returns.
InMap(conns, s) == s \in 1..Len(conns)

IsClosed(P, s) == InMap(P.conns, s) => P.conns[s].closed

\* ---- removeConnection -------------------------------------------------------
\* A removeConnection that leaves the pool as it is.
removeNothing(P, s) == P

\* connections.delete(conn); splice conn out of the available list (its first
\* occurrence); conn.close().  On a Connection that is not in the map all
\* three do nothing.
removeConnection(P, s) ==
  IF ~InMap(P.conns, s) THEN P
  ELSE LET spliced == SpliceFirst(P.avail, s) IN
       Pool(DropAt(P.conns, s),
            [i \in 1..Len(spliced) |-> Renamed(spliced[i], s)],
            [c \in Callers |-> Renamed(P.cc[c], s)])

\* removeConnection for each of a list of Connections named as in P; the list
\* is in map order, so removing from its end leaves the earlier names valid.
RECURSIVE removeAll(_, _)
removeAll(P, ss) ==
  IF ss = <<>> THEN P
  ELSE removeAll(removeConnection(P, ss[Len(ss)]), SubSeq(ss, 1, Len(ss) - 1))

\* metadata.lastUsedAt = Date.now(), if the Connection has a metadata record.
Touch(conns, s) ==
  IF InMap(conns, s) THEN [conns EXCEPT ![s].lastUsedAgo = 0] ELSE conns

\* ---- the Connection and the row codec before use ----------------------------
Queries == 1..NumQueries

\* The security levels of the model: only unsecured, only secured.
SecurityLevels == {1, 3}


\* An execute() call: where it is ("idle": not made, "reading": suspended in
\* readQueryResponse, "done": settled), whether it has seen a row description,
\* how it settled, and the queries whose messages it took.
\* An execute() call not made yet; alone records, once the call is made, that no
\* other call was reading when it was (history).
NewCall == [at |-> "idle", fields |-> FALSE, out |-> "none", from |-> {}, alone |-> FALSE]

\* new Connection(options): no socket, empty buffer, not closed.
NewConnection(lvl) ==
  /\ securityLevel = lvl
  /\ socket = FALSE
  /\ buffer = <<>>
  /\ connectionClosed = FALSE
  /\ transactionStatus = TRANSACTION_STATUS_IDLE
  /\ hsVersion = 0
  /\ version = 0
  /\ phase = "none"
  /\ connectPromise = [state |-> "none", error |-> "none"]
  /\ written = <<>>
  /\ served = 0
  /\ broken = FALSE
  /\ connects = 0
  /\ calls = [i \in Queries |-> NewCall]
  /\ did = "none"

\* Nothing was encoded or decoded yet.
NoBuffer == [built |-> FALSE, bytes |-> <<>>]
NotParsed == [parsed |-> FALSE, value |-> <<>>, dataIdx |-> <<>>]

\* No row has been encoded or decoded.
NoRow ==
  /\ rowMode = "object"
  /\ fields = <<>>
  /\ values = <<>>
  /\ data = NoBuffer
  /\ row = NotParsed

\* execute() has not been called.
NoStatement ==
  /\ revision = "current"
  /\ sql = <<>>
  /\ params = <<>>
  /\ sentMessages = <<>>

\* readBytes has not been called and nothing has arrived.
NoRead == [count |-> 0, at |-> "idle", result |-> <<>>, error |-> "none", start |-> 0]

NoReader ==
  /\ arrived = 0
  /\ ended = FALSE
  /\ reads = [r \in 1..NumReads |-> NoRead]
  /\ waiters = <<>>
  /\ consumed = 0

\* ---- Init: the state after new Pool(options) ------------------------------
\* The constructor validates min >= 0, max >= 1, min <= max and calls
\* initialize(), which starts min creations and, when min = 0, starts the
\* eviction timer before the constructor returns.  The pools of the model
\* validate on borrow and on return, or not at all.
ValidOptions ==
  {o \in [min : 0..MaxPoolMax, max : 0..MaxPoolMax,
          validateOnBorrow : BOOLEAN, validateOnReturn : BOOLEAN] :
     /\ ~(o.min < 0)
     /\ ~(o.max < 1)
     /\ ~(o.min > o.max)
     /\ o.validateOnBorrow = o.validateOnReturn}

InitWith(o) ==
  /\ options = o
  /\ connections = <<>>
  /\ availableConnections = <<>>
  /\ pendingAcquires = <<>>
  /\ timers = {}
  /\ waited = [c \in Callers |-> 0]
  /\ evictionTimer = (o.min = 0)
  /\ closing = FALSE
  /\ closed = FALSE
  /\ initInFlight = o.min
  /\ backfillInFlight = 0
  /\ pc = [c \in Callers |-> "idle"]
  /\ op = [c \in Callers |-> "none"]
  /\ cconn = [c \in Callers |-> 0]
  /\ result = [c \in Callers |-> "none"]
  /\ queries = [c \in Callers |-> 0]
  /\ endsInFlight = 0
  /\ last = Settled(Nobody, "none")

\* The pool specification leaves the Connection and the row codec of the
\* other specifications untouched.
Init ==
  /\ \E o \in ValidOptions : InitWith(o)
  /\ NewConnection(0)
  /\ NoRow
  /\ NoStatement
  /\ NoReader

\* ---- the event loop ----------------------------------------------------------
\* end() awaits promises that are already settled (Connection.close resolves
\* before it returns), so it resumes in the same turn of the event loop:
\* between its two halves only callers' own continuations can run (calls of
\* acquire, execute, release, end), never a timer callback or the completion
\* of socket I/O.  A probe or query on a Connection that has been closed
\* throws at once and is part of the turn.
InEndTurn == endsInFlight > 0

\* A probe or query on Connection s can resume now, resolved (ok) or rejected.
IoCanResume(s, ok) ==
  /\ ok => ~IsClosed(Now, s)
  /\ InEndTurn => IsClosed(Now, s)

\* Connection objects alive in the model: in the map or under construction.
Objects ==
  Len(connections) + initInFlight + backfillInFlight
    + Cardinality({c \in Callers : pc[c] = "acq_creating"})

\* The callers the model follows: all of them on a pool that validates
\* nothing, the first ValidatingCallers on a pool that validates on borrow or
\* on return.
Active ==
  IF options.validateOnBorrow \/ options.validateOnReturn
  THEN 1..ValidatingCallers ELSE Callers

\* The caller that makes the next call: callers with nothing in progress are
\* interchangeable.
Free(c) ==
  /\ c \in Active
  /\ pc[c] = "idle"
  /\ \A d \in Callers : pc[d] = "idle" => c <= d

\* ---- Pool.acquire ----------------------------------------------------------
\* A guard that forgets the closing flag.
GuardErrorClosedOnly == IF closed THEN "Pool is closed" ELSE "none"

\* The guard at the head of acquire() and execute().
GuardError ==
  IF closed THEN "Pool is closed"
  ELSE IF closing THEN "Pool is closing"
  ELSE "none"

\* acquire()'s test before it creates a Connection of its own.
BelowMax(conns) == Len(conns) < options.max

\* A test that rethrows whenever no Connection is available.
RethrowWhenNoneAvailable(conns, avail) == Len(avail) = 0

\* acquire()'s test, after its creation failed, to rethrow instead of waiting.
RethrowCreateError(conns, avail) == Len(avail) = 0 /\ Len(conns) = 0

\* acquire() returns Connection s to caller c.  When the acquire() was made
\* by Pool.execute, execute goes on to conn.execute(sql, params) in the same
\* run and stays unsettled.
AcquireReturn(c, kind, s, cc) ==
  /\ pc' = [pc EXCEPT ![c] = IF kind = "execute" THEN "querying" ELSE "holding"]
  /\ op' = [op EXCEPT ![c] = IF kind = "execute" THEN "execute" ELSE "none"]
  /\ cconn' = [cc EXCEPT ![c] = s]
  /\ queries' = [queries EXCEPT ![c] = IF kind = "execute" THEN @ + 1 ELSE @]
  /\ last' = IF kind = "execute" THEN Settled(Nobody, "none") ELSE Settled({c}, "resolved")
  /\ UNCHANGED result

\* acquire() (and with it the calling execute()) rejects with e.
AcquireThrow(c, e, cc) ==
  /\ pc' = [pc EXCEPT ![c] = "idle"]
  /\ op' = [op EXCEPT ![c] = "none"]
  /\ cconn' = [cc EXCEPT ![c] = 0]
  /\ queries' = [queries EXCEPT ![c] = 0]
  /\ last' = Settled({c}, e)
  /\ UNCHANGED result

\* acquire() is suspended at an await, at position p, on Connection s.
AcquireSuspend(c, kind, p, s, cc) ==
  /\ pc' = [pc EXCEPT ![c] = p]
  /\ op' = [op EXCEPT ![c] = kind]
  /\ cconn' = [cc EXCEPT ![c] = s]
  /\ last' = Settled(Nobody, "none")
  /\ UNCHANGED <<queries, result>>

\* The tail of acquire(): push a PendingAcquire with a deadline timer.
Enqueue(c, kind, cc) ==
  /\ pendingAcquires' = Append(pendingAcquires, c)
  /\ timers' = timers \cup {c}
  /\ waited' = [waited EXCEPT ![c] = 0]
  /\ AcquireSuspend(c, kind, "pending", 0, cc)

\* An acquire() that reads the head of the list and leaves it there.
ShiftedKeepsHead(avail) == avail

\* The available list after availableConnections.shift().
Shifted(avail) == Tail(avail)

\* acquire() from the head of its while loop, with the pool as it stands at
\* that point.
AcquireLoop(c, kind, P) ==
  IF Len(P.avail) > 0 THEN
    LET s == Head(P.avail) IN
    /\ availableConnections' = Shifted(P.avail)
    /\ IF options.validateOnBorrow
       THEN /\ connections' = P.conns
            /\ AcquireSuspend(c, kind, "acq_validating", s, P.cc)
       ELSE /\ connections' = Touch(P.conns, s)
            /\ AcquireReturn(c, kind, s, P.cc)
    /\ UNCHANGED <<pendingAcquires, timers, waited>>
  ELSE IF BelowMax(P.conns) THEN
    /\ Objects < MaxConns
    /\ availableConnections' = P.avail
    /\ connections' = P.conns
    /\ AcquireSuspend(c, kind, "acq_creating", 0, P.cc)
    /\ UNCHANGED <<pendingAcquires, timers, waited>>
  ELSE
    /\ availableConnections' = P.avail
    /\ connections' = P.conns
    /\ Enqueue(c, kind, P.cc)

\* A caller calls pool.acquire() (kind "acquire") or pool.execute() (kind
\* "execute"), which begins with the same guard and then awaits acquire().
Call(c, kind) ==
  /\ Free(c)
  /\ UNCHANGED <<options, evictionTimer, closing, closed, initInFlight,
                 backfillInFlight, endsInFlight>>
  /\ IF GuardError # "none"
     THEN /\ AcquireThrow(c, GuardError, cconn)
          /\ UNCHANGED <<connections, availableConnections, pendingAcquires,
                         timers, waited>>
     ELSE AcquireLoop(c, kind, Now)

Acquire(c) == Call(c, "acquire")

Execute(c) == Call(c, "execute")

\* await this.validateConnection(conn) in acquire() resumes: a valid
\* Connection is returned, an invalid one removed and the loop continued.
AcquireValidated(c, valid) ==
  /\ pc[c] = "acq_validating"
  /\ IoCanResume(cconn[c], valid)
  /\ UNCHANGED <<options, evictionTimer, closing, closed, initInFlight,
                 backfillInFlight, endsInFlight>>
  /\ IF valid
     THEN /\ connections' = Touch(connections, cconn[c])
          /\ AcquireReturn(c, op[c], cconn[c], cconn)
          /\ UNCHANGED <<availableConnections, pendingAcquires, timers, waited>>
     ELSE AcquireLoop(c, op[c], removeConnection(Now, cconn[c]))

\* await this.createConnection() in acquire() resumes: createConnection has
\* recorded the new Connection in the entry map, or conn.connect() rejected.
AcquireCreated(c, ok) ==
  /\ pc[c] = "acq_creating"
  /\ ~InEndTurn
  /\ UNCHANGED <<options, evictionTimer, closing, closed, initInFlight,
                 backfillInFlight, endsInFlight>>
  /\ IF ok
     THEN /\ connections' = Append(connections, NewEntry)
          /\ AcquireReturn(c, op[c], Len(connections) + 1, cconn)
          /\ UNCHANGED <<availableConnections, pendingAcquires, timers, waited>>
     ELSE /\ UNCHANGED <<connections, availableConnections>>
          /\ IF RethrowCreateError(connections, availableConnections)
             THEN /\ AcquireThrow(c, "create failed", cconn)
                  /\ UNCHANGED <<pendingAcquires, timers, waited>>
             ELSE Enqueue(c, op[c], cconn)

\* A deadline timer that fires without waiting.
TimerDueAtOnce(c) == waited[c] >= 0

\* The deadline timer of caller c's pending acquire fires: setTimeout runs
\* its callback no earlier than acquireTimeout after it was armed.  The
\* callback splices the request out of the queue and rejects it (rejecting
\* an already settled promise does nothing).
TimerDue(c) == waited[c] >= AcquireTimeout

\* A timer callback that rejects the request and leaves it in the queue.
AcquireTimedOutStaysQueued(c) ==
  /\ c \in timers
  /\ TimerDue(c)
  /\ ~InEndTurn
  /\ timers' = timers \ {c}
  /\ waited' = [waited EXCEPT ![c] = 0]
  /\ pendingAcquires' = pendingAcquires
  /\ IF pc[c] = "pending"
     THEN AcquireThrow(c, "Acquire timeout", cconn)
     ELSE /\ last' = Settled(Nobody, "none")
          /\ UNCHANGED <<pc, op, cconn, result, queries>>
  /\ UNCHANGED <<options, connections, availableConnections, evictionTimer, closing,
                 closed, initInFlight, backfillInFlight, endsInFlight>>

AcquireTimedOut(c) ==
  /\ c \in timers
  /\ TimerDue(c)
  /\ ~InEndTurn
  /\ timers' = timers \ {c}
  /\ waited' = [waited EXCEPT ![c] = 0]
  /\ pendingAcquires' = SpliceFirst(pendingAcquires, c)
  /\ IF pc[c] = "pending"
     THEN AcquireThrow(c, "Acquire timeout", cconn)
     ELSE /\ last' = Settled(Nobody, "none")
          /\ UNCHANGED <<pc, op, cconn, result, queries>>
  /\ UNCHANGED <<options, connections, availableConnections, evictionTimer, closing,
                 closed, initInFlight, backfillInFlight, endsInFlight>>

\* ---- Pool.release ----------------------------------------------------------
\* A release() that serves the newest request: pendingAcquires.pop().
HandOffNewest(q) == q[Len(q)]

\* The pending request release() resolves: pendingAcquires.shift().
HandOffTarget(q) == Head(q)

\* The call of caller c that contained the release() settles with r, with the
\* callers' references as in cc; handed are the pending callers (one or none)
\* whose acquire() release() resolved with Connection s.  A resolved acquire()
\* made by Pool.execute goes on to run its query.
ReleaseSettle(c, r, handed, s, cc) ==
  /\ pc' = [x \in Callers |->
              IF x = c THEN "idle"
              ELSE IF x \in handed THEN (IF op[x] = "execute" THEN "querying" ELSE "holding")
              ELSE pc[x]]
  /\ op' = [x \in Callers |->
              IF x = c THEN "none"
              ELSE IF x \in handed THEN (IF op[x] = "execute" THEN "execute" ELSE "none")
              ELSE op[x]]
  /\ cconn' = [x \in Callers |->
              IF x = c THEN 0 ELSE IF x \in handed THEN s ELSE cc[x]]
  /\ queries' = [x \in Callers |->
              IF x = c THEN 0
              ELSE IF x \in handed /\ op[x] = "execute" THEN queries[x] + 1
              ELSE queries[x]]
  /\ result' = [result EXCEPT ![c] = "none"]
  /\ last' = Settled({c}, r)

\* release() after the optional return-validation: touch the metadata, then
\* hand the Connection to the oldest pending request (clearing its timer) or
\* push it on the available list.
ReleaseTail(c, r) ==
  LET s == cconn[c] IN
  /\ connections' = Touch(connections, s)
  /\ IF Len(pendingAcquires) > 0
     THEN LET p == HandOffTarget(pendingAcquires) IN
          /\ pendingAcquires' = SpliceFirst(pendingAcquires, p)
          /\ timers' = timers \ {p}
          /\ waited' = [waited EXCEPT ![p] = 0]
          /\ ReleaseSettle(c, r, {p}, s, cconn)
          /\ UNCHANGED availableConnections
     ELSE /\ availableConnections' = Append(availableConnections, s)
          /\ ReleaseSettle(c, r, {}, s, cconn)
          /\ UNCHANGED <<pendingAcquires, timers, waited>>

\* release(conn) from its first line, for a call that settles with r when
\* release() returns normally.
ReleaseBody(c, r) ==
  IF ~InMap(connections, cconn[c])
  THEN /\ ReleaseSettle(c, "Connection does not belong to this pool", {}, 0, cconn)
       /\ UNCHANGED <<connections, availableConnections, pendingAcquires, timers, waited>>
  ELSE IF options.validateOnReturn
  THEN /\ pc' = [pc EXCEPT ![c] = "rel_validating"]
       /\ op' = [op EXCEPT ![c] = IF @ = "execute" THEN "execute" ELSE "release"]
       /\ result' = [result EXCEPT ![c] = r]
       /\ last' = Settled(Nobody, "none")
       /\ UNCHANGED <<cconn, queries, connections, availableConnections,
                      pendingAcquires, timers, waited>>
  ELSE ReleaseTail(c, r)

\* A caller releases the Connection it holds.
Release(c) ==
  /\ pc[c] = "holding"
  /\ ReleaseBody(c, "released")
  /\ UNCHANGED <<options, evictionTimer, closing, closed, initInFlight,
                 backfillInFlight, endsInFlight>>

\* await this.validateConnection(connection) in release() resumes.  What the
\* enclosing call settles with was fixed when release() began.
ReleaseValidated(c, valid) ==
  /\ pc[c] = "rel_validating"
  /\ IoCanResume(cconn[c], valid)
  /\ IF valid
     THEN ReleaseTail(c, result[c])
     ELSE LET P == removeConnection(Now, cconn[c]) IN
          /\ connections' = P.conns
          /\ availableConnections' = P.avail
          /\ ReleaseSettle(c, result[c], {}, 0, P.cc)
          /\ UNCHANGED <<pendingAcquires, timers, waited>>
  /\ UNCHANGED <<options, evictionTimer, closing, closed, initInFlight,
                 backfillInFlight, endsInFlight>>

\* ---- Pool.execute ----------------------------------------------------------
\* An execute() that releases after the query only when it resolved.
ExecuteReleasesOnSuccess(c, ok) ==
  IF ok THEN ReleaseBody(c, "query result")
  ELSE /\ ReleaseSettle(c, "query error", {}, 0, cconn)
       /\ UNCHANGED <<connections, availableConnections, pendingAcquires, timers, waited>>

\* The finally block of execute(): release(conn), whether the query resolved
\* (ok) or threw; execute() then settles with the query's outcome.
ExecuteFinally(c, ok) ==
  ReleaseBody(c, IF ok THEN "query result" ELSE "query error")

\* await conn.execute(sql, params) resumes, resolved or rejected.
QueryDone(c, ok) ==
  /\ pc[c] = "querying"
  /\ IoCanResume(cconn[c], ok)
  /\ ExecuteFinally(c, ok)
  /\ UNCHANGED <<options, evictionTimer, closing, closed, initInFlight,
                 backfillInFlight, endsInFlight>>

\* ---- Pool.end --------------------------------------------------------------
\* An end() that rejects the pending requests and leaves their timers armed.
EndClearsNoTimer == {}

\* The callers whose pending requests end() rejects, and the timers it clears.
EndRejected == Range(pendingAcquires)

EndClearedTimers == Range(pendingAcquires)

\* end() up to await Promise.allSettled(closePromises); on a closed pool it
\* returns at once.
End ==
  IF closed
  THEN /\ last' = Settled(Nobody, "end resolved")
       /\ UNCHANGED <<options, connections, availableConnections, pendingAcquires,
                      timers, waited, evictionTimer, closing, closed, initInFlight,
                      backfillInFlight, pc, op, cconn, result, queries, endsInFlight>>
  ELSE /\ endsInFlight < MaxEnds
       /\ last' = IF EndRejected = {} THEN Settled(Nobody, "none")
                  ELSE Settled(EndRejected, "Pool is closing")
       /\ closing' = TRUE
       /\ evictionTimer' = FALSE
       /\ pc' = [x \in Callers |-> IF x \in EndRejected THEN "idle" ELSE pc[x]]
       /\ op' = [x \in Callers |-> IF x \in EndRejected THEN "none" ELSE op[x]]
       /\ timers' = timers \ EndClearedTimers
       /\ waited' = [x \in Callers |-> IF x \in EndClearedTimers THEN 0 ELSE waited[x]]
       /\ pendingAcquires' = <<>>
       /\ connections' = [i \in 1..Len(connections) |->
                            [connections[i] EXCEPT !.closed = TRUE]]
       /\ endsInFlight' = endsInFlight + 1
       /\ UNCHANGED <<options, availableConnections, closed, initInFlight,
                      backfillInFlight, cconn, result, queries>>

\* end() resumes after the close promises have settled.
EndFinish ==
  /\ endsInFlight > 0
  /\ last' = Settled(Nobody, "end resolved")
  /\ connections' = <<>>
  /\ availableConnections' = <<>>
  /\ cconn' = [c \in Callers |-> 0]
  /\ closed' = TRUE
  /\ closing' = FALSE
  /\ endsInFlight' = endsInFlight - 1
  /\ UNCHANGED <<options, pendingAcquires, timers, waited, evictionTimer,
                 initInFlight, backfillInFlight, pc, op, result, queries>>

\* ---- creations outside acquire(): initialize() and backfillConnections() ---
\* One of initialize()'s createConnection() promises settles: a created
\* Connection is recorded in the map and pushed on the available list.  When
\* the last has settled, Promise.allSettled resolves and initialize() starts
\* the eviction timer.
InitCreated(ok) ==
  /\ initInFlight > 0
  /\ ~InEndTurn
  /\ last' = Settled(Nobody, "none")
  /\ initInFlight' = initInFlight - 1
  /\ evictionTimer' = IF initInFlight = 1 THEN TRUE ELSE evictionTimer
  /\ IF ok
     THEN /\ connections' = Append(connections, NewEntry)
          /\ availableConnections' = Append(availableConnections, Len(connections) + 1)
     ELSE UNCHANGED <<connections, availableConnections>>
  /\ UNCHANGED <<options, pendingAcquires, timers, waited, closing, closed,
                 backfillInFlight, pc, op, cconn, result, queries, endsInFlight>>

\* backfill's test before it adds the created Connection to the available list.
BackfillKeeps == ~closed /\ ~closing

\* One of backfillConnections()'s createConnection() promises settles: a
\* created Connection is recorded in the map, then pushed on the available
\* list or closed.
BackfillCreated(ok) ==
  /\ backfillInFlight > 0
  /\ ~InEndTurn
  /\ last' = Settled(Nobody, "none")
  /\ backfillInFlight' = backfillInFlight - 1
  /\ IF ok
     THEN IF BackfillKeeps
          THEN /\ connections' = Append(connections, NewEntry)
               /\ availableConnections' = Append(availableConnections, Len(connections) + 1)
          ELSE /\ connections' = Append(connections, [NewEntry EXCEPT !.closed = TRUE])
               /\ UNCHANGED availableConnections
     ELSE UNCHANGED <<connections, availableConnections>>
  /\ UNCHANGED <<options, pendingAcquires, timers, waited, evictionTimer, closing,
                 closed, initInFlight, pc, op, cconn, result, queries, endsInFlight>>

\* ---- the maintenance tick --------------------------------------------------
\* An idle eviction that takes every idle available entry, whatever min is.
RECURSIVE IdleVictimsNoMin(_, _, _)
IdleVictimsNoMin(i, acc, P) ==
  IF i > Len(P.conns) THEN acc
  ELSE IF i \in Range(P.avail) /\ P.conns[i].lastUsedAgo > IdleTimeout
       THEN IdleVictimsNoMin(i + 1, Append(acc, i), P)
       ELSE IdleVictimsNoMin(i + 1, acc, P)

\* evictIdleConnections(): connectionsToRemove, built over the entries in map
\* order from entry i on; acc is the list built so far.
RECURSIVE IdleVictims(_, _, _)
IdleVictims(i, acc, P) ==
  IF i > Len(P.conns) THEN acc
  ELSE IF /\ i \in Range(P.avail)
          /\ P.conns[i].lastUsedAgo > IdleTimeout
          /\ Len(P.conns) - Len(acc) > options.min
       THEN IdleVictims(i + 1, Append(acc, i), P)
       ELSE IdleVictims(i + 1, acc, P)

\* A lifetime eviction that takes every expired entry, available or in use.
RECURSIVE ExpiredVictimsInUse(_, _)
ExpiredVictimsInUse(i, P) ==
  IF i > Len(P.conns) THEN <<>>
  ELSE IF P.conns[i].createdAgo > ConnectionTimeout
       THEN <<i>> \o ExpiredVictimsInUse(i + 1, P)
       ELSE ExpiredVictimsInUse(i + 1, P)

\* evictExpiredConnections(): connectionsToRemove, from entry i on.
RECURSIVE ExpiredVictims(_, _)
ExpiredVictims(i, P) ==
  IF i > Len(P.conns) THEN <<>>
  ELSE IF i \in Range(P.avail) /\ P.conns[i].createdAgo > ConnectionTimeout
       THEN <<i>> \o ExpiredVictims(i + 1, P)
       ELSE ExpiredVictims(i + 1, P)

\* A backfill that starts one creation too few.
DeficitShort(conns) ==
  IF options.min = 0 THEN 0
  ELSE IF options.min - Len(conns) - 1 > 0 THEN options.min - Len(conns) - 1 ELSE 0

\* backfillConnections(): the number of creations it starts.
Deficit(conns) ==
  IF options.min = 0 THEN 0
  ELSE IF options.min - Len(conns) > 0 THEN options.min - Len(conns) ELSE 0

\* The setInterval callback: evictIdleConnections(), evictExpiredConnections(),
\* backfillConnections(), in that order, in one run.  A run that evicts
\* nothing and starts no creation leaves the pool as it was and is no step.
MaintenanceTick ==
  LET P1 == removeAll(Now, IdleVictims(1, <<>>, Now))
      P2 == removeAll(P1, ExpiredVictims(1, P1))
      deficit == Deficit(P2.conns)
  IN
  /\ evictionTimer
  /\ ~InEndTurn
  /\ (Len(P2.conns) < Len(connections) \/ deficit > 0)
  /\ Objects - (Len(connections) - Len(P2.conns)) + deficit <= MaxConns
  /\ last' = Settled(Nobody, "maintenance")
  /\ connections' = P2.conns
  /\ availableConnections' = P2.avail
  /\ cconn' = P2.cc
  /\ backfillInFlight' = backfillInFlight + deficit
  /\ UNCHANGED <<options, pendingAcquires, timers, waited, evictionTimer, closing,
                 closed, initInFlight, pc, op, result, queries, endsInFlight>>

\* ---- time passes -----------------------------------------------------------
\* Time passes when it makes a difference to some age the pool will read.
\* Ages saturate one past the threshold they are compared with.  lastUsedAt of
\* an entry outside the available list is never read before acquire() or
\* release() overwrites it (only available entries are candidates for idle
\* eviction), so its age advances only while the entry is available; and no
\* age of an entry is read again once the eviction timer is stopped with
\* initialize() over, which alone starts it.
Older(n, cap) == IF n < cap THEN n + 1 ELSE n

MaintenanceCanRun == evictionTimer \/ initInFlight > 0

Tick ==
  /\ ~InEndTurn
  /\ last' = Settled(Nobody, "none")
  /\ connections' = [i \in 1..Len(connections) |->
                       IF MaintenanceCanRun
                       THEN [connections[i] EXCEPT
                               !.createdAgo = Older(@, ConnectionTimeout + 1),
                               !.lastUsedAgo = IF i \in Range(availableConnections)
                                               THEN Older(@, IdleTimeout + 1) ELSE @]
                       ELSE connections[i]]
  /\ waited' = [c \in Callers |->
                  IF c \in timers THEN Older(waited[c], AcquireTimeout) ELSE waited[c]]
  /\ UNCHANGED <<options, availableConnections, pendingAcquires, timers,
                 evictionTimer, closing, closed, initInFlight, backfillInFlight,
                 pc, op, cconn, result, queries, endsInFlight>>
  /\ (connections' # connections \/ waited' # waited)

\* ---- the specification -----------------------------------------------------
Next ==
  \/ \E c \in Callers : Acquire(c) /\ UNCHANGED <<connectionVars, rowVars, statementVars, readerVars>>
  \/ \E c \in Callers : Execute(c) /\ UNCHANGED <<connectionVars, rowVars, statementVars, readerVars>>
  \/ \E c \in Callers, valid \in BOOLEAN : AcquireValidated(c, valid) /\ UNCHANGED <<connectionVars, rowVars, statementVars, readerVars>>
  \/ \E c \in Callers, ok \in BOOLEAN : AcquireCreated(c, ok) /\ UNCHANGED <<connectionVars, rowVars, statementVars, readerVars>>
  \/ \E c \in Callers : AcquireTimedOut(c) /\ UNCHANGED <<connectionVars, rowVars, statementVars, readerVars>>
  \/ \E c \in Callers : Release(c) /\ UNCHANGED <<connectionVars, rowVars, statementVars, readerVars>>
  \/ \E c \in Callers, valid \in BOOLEAN : ReleaseValidated(c, valid) /\ UNCHANGED <<connectionVars, rowVars, statementVars, readerVars>>
  \/ \E c \in Callers, ok \in BOOLEAN : QueryDone(c, ok) /\ UNCHANGED <<connectionVars, rowVars, statementVars, readerVars>>
  \/ End /\ UNCHANGED <<connectionVars, rowVars, statementVars, readerVars>>
  \/ EndFinish /\ UNCHANGED <<connectionVars, rowVars, statementVars, readerVars>>
  \/ \E ok \in BOOLEAN : InitCreated(ok) /\ UNCHANGED <<connectionVars, rowVars, statementVars, readerVars>>
  \/ \E ok \in BOOLEAN : BackfillCreated(ok) /\ UNCHANGED <<connectionVars, rowVars, statementVars, readerVars>>
  \/ MaintenanceTick /\ UNCHANGED <<connectionVars, rowVars, statementVars, readerVars>>
  \/ Tick /\ UNCHANGED <<connectionVars, rowVars, statementVars, readerVars>>

Spec == Init /\ [][Next]_vars

TypeOK ==
  /\ options \in ValidOptions
  /\ Len(connections) <= MaxConns
  /\ \A i \in 1..Len(availableConnections) : availableConnections[i] \in 0..Len(connections)
  /\ Range(pendingAcquires) \subseteq Callers
  /\ timers \subseteq Callers
  /\ endsInFlight \in 0..MaxEnds
  /\ initInFlight \in 0..MaxPoolMax
  /\ backfillInFlight \in 0..MaxConns
  /\ \A c \in Callers :
       /\ waited[c] \in 0..AcquireTimeout
       /\ queries[c] \in 0..1
       /\ cconn[c] \in 0..Len(connections)

\* ---- properties -------------------------------------------------------------
\* end() has not been called on the pool.
Open == ~closed /\ ~closing

\* The callers that have Connection s: handed out to them, being probed for
\* them, or in use by their Pool.execute.
Holders(s) ==
  {c \in Callers :
     pc[c] \in {"holding", "querying", "acq_validating", "rel_validating"} /\ cconn[c] = s}

\* In the step taken, the call of caller c ran release() to its end without
\* discarding the Connection.
ReleasedIn(c) ==
  /\ pc[c] \in {"holding", "querying", "rel_validating"}
  /\ last'.who = {c}
  /\ last'.out \in {"released", "query result", "query error"}
  /\ InMap(connections, cconn[c])
  /\ Len(connections') = Len(connections)

\* C1: on an open pool getStats() satisfies available + inUse = total and
\* total <= max at every instant, under every interleaving of acquire(),
\* release(), the initial fill and maintenance ticks.
C1_StatsInvariant ==
  Open => /\ getStats.available + getStats.inUse = getStats.total
          /\ getStats.total <= options.max

\* C2: no Connection is double-issued.  A Connection the pool owns is never
\* in the available list twice, never held by two callers, never held while
\* it is in the available list; and on a pool on which end() has not been
\* called it is either in the available list or held by a caller (or under
\* validation for one).
C2_NoDoubleIssue ==
  \A s \in 1..Len(connections) :
    /\ Count(availableConnections, s) <= 1
    /\ Cardinality(Holders(s)) <= 1
    /\ ~(Count(availableConnections, s) = 1 /\ Holders(s) # {})
    /\ Open => Count(availableConnections, s) + Cardinality(Holders(s)) = 1

C2_Witness ==
  /\ Open
  /\ \E s, u \in 1..Len(connections) :
       /\ Count(availableConnections, s) = 1
       /\ Holders(u) # {}
  /\ \E c \in Callers : pc[c] = "pending"

\* C3: when release() runs with a pending acquire queued and does not discard
\* the Connection, the Connection goes to the oldest request in the queue,
\* whose timer is cancelled, and not to the available list; requests join the
\* queue at its end, so they are served in the order they were enqueued.
C3_HandOffToOldest ==
  [][/\ \A c \in Callers :
          (ReleasedIn(c) /\ pendingAcquires # <<>>)
          => LET p == Head(pendingAcquires) IN
             /\ pc'[p] \in {"holding", "querying"}
             /\ cconn'[p] = cconn[c]
             /\ p \notin timers'
             /\ pendingAcquires' = Tail(pendingAcquires)
             /\ availableConnections' = availableConnections
     /\ \A c \in Callers :
          (pc[c] # "pending" /\ pc'[c] = "pending")
          => pendingAcquires' = Append(pendingAcquires, c)]_vars

C3_Witness ==
  /\ last.out = "released"
  /\ pendingAcquires # <<>>
  /\ \E p \in Callers : pc[p] = "holding" /\ InMap(connections, cconn[p])

\* C4: an acquire() issued on an open pool with total = max and nothing
\* available is queued with a deadline timer; a queued request is rejected
\* with the timeout failure only once acquireTimeout has elapsed since then,
\* and it is then out of the queue; and every queued request has its timer
\* armed, so the deadline does come.
C4_QueuedWithDeadline ==
  /\ [](\A c \in Callers :
          pc[c] = "pending" => c \in timers /\ Count(pendingAcquires, c) = 1)
  /\ [][/\ \A c \in Callers :
             (/\ pc[c] = "idle" /\ pc'[c] # "idle"
              /\ Len(connections) = options.max
              /\ availableConnections = <<>>)
             => /\ pc'[c] = "pending"
                /\ c \in timers' /\ waited'[c] = 0
                /\ pendingAcquires' = Append(pendingAcquires, c)
        /\ \A c \in Callers :
             (last'.who = {c} /\ last'.out = "Acquire timeout" /\ pc[c] = "pending")
             => /\ waited[c] >= AcquireTimeout
                /\ pc'[c] = "idle"
                /\ c \notin Range(pendingAcquires')
                /\ c \notin timers']_vars

C4_Witness ==
  /\ last.out = "Acquire timeout"
  /\ Open
  /\ Len(connections) = options.max
  /\ availableConnections = <<>>

\* C5: in a pool created with min = 2 and max = 2, an acquire() issued while
\* two callers hold the Connections their acquire() calls resolved with gets
\* none: it is queued.
C5_ThirdAcquireBlocks ==
  [][\A c \in Callers :
       (/\ options.min = 2 /\ options.max = 2 /\ Open
        /\ Cardinality({d \in Callers : pc[d] = "holding"}) = 2
        /\ pc[c] = "idle" /\ pc'[c] # "idle")
       => pc'[c] = "pending"]_vars

C7_ClosedPoolIsEmpty ==
  closed => /\ getStats.total = 0
            /\ getStats.available = 0
            /\ getStats.pending = 0

\* C8: end() rejects every request pending when it is called with 'Pool is
\* closing', cancels its timer and leaves the queue empty; a settled request
\* is in no queue and has no timer, so it is neither handed a Connection nor
\* rejected again later.
C8_EndRejectsPending ==
  /\ [](\A c \in Callers :
          (c \in timers \/ c \in Range(pendingAcquires)) => pc[c] = "pending")
  /\ [][(~closed /\ endsInFlight' = endsInFlight + 1)
        => /\ pendingAcquires' = <<>>
           /\ \A c \in Range(pendingAcquires) :
                /\ pc'[c] = "idle"
                /\ c \in last'.who /\ last'.out = "Pool is closing"
                /\ c \notin timers']_vars

C8_Witness ==
  /\ closing
  /\ last.out = "Pool is closing"
  /\ Cardinality(last.who) >= 2

\* C9: on a closed pool, and while end() is in progress, no acquire() or
\* execute() is accepted; the call is rejected with 'Pool is closed' on a
\* closed pool and with 'Pool is closing' while end() is in progress, and
\* nothing of the pool changes.
C9_GuardRejects ==
  [][/\ (closed \/ closing) => \A c \in Callers : pc[c] = "idle" => pc'[c] = "idle"
     /\ last'.out = "Pool is closed"
        => /\ closed
           /\ UNCHANGED <<options, connections, availableConnections, pendingAcquires,
                          timers, waited, evictionTimer, closing, closed, initInFlight,
                          backfillInFlight, pc, op, cconn, result, queries, endsInFlight>>
     /\ (last'.out = "Pool is closing" /\ endsInFlight' = endsInFlight)
        => /\ closing /\ ~closed
           /\ UNCHANGED <<options, connections, availableConnections, pendingAcquires,
                          timers, waited, evictionTimer, closing, closed, initInFlight,
                          backfillInFlight, pc, op, cconn, result, queries, endsInFlight>>]_vars

C9_Witness ==
  /\ closed
  /\ last.out = "Pool is closed"
  /\ \E c \in Callers : pc[c] # "idle"

\* C10: when Pool.execute settles after its acquire() resolved, it has run
\* its query exactly once, and the Connection it used, if the pool still owns
\* it, is in the available list, handed to a pending request or removed from
\* the pool: the caller no longer has it.
C10_ExecuteReleases ==
  [][\A c \in Callers :
       (/\ op[c] = "execute"
        /\ pc[c] \in {"querying", "rel_validating"}
        /\ pc'[c] = "idle")
       => /\ queries[c] = 1
          /\ InMap(connections, cconn[c])
             => \/ Len(connections') = Len(connections) - 1
                \/ Count(availableConnections', cconn[c]) = 1
                \/ \E p \in Callers \ {c} :
                     /\ pc[p] = "pending"
                     /\ pc'[p] \in {"holding", "querying"}
                     /\ cconn'[p] = cconn[c]]_vars

C10_Witness ==
  /\ Open
  /\ last.out = "query error"
  /\ availableConnections # <<>>

\* ==== the Connection (class Connection) ======================================
\* A step is one uninterrupted run of Connection code: a public call up to its
\* first read that has to wait, or the resumption of a suspended read with the
\* next reply of the server.  What the server sends is held in this.buffer as
\* a sequence of replies, each a single handshake byte or one whole backend
\* message, and a read takes one reply; a reader identifies a reply by its
\* first byte, as the code does.  The server answers the messages written to
\* the socket in the order they were written, with any of the replies the
\* protocol knows for that message or with a byte it does not know.

\* A single byte sent by the server during the handshake.
Byte(b) == [b |-> b, msg |-> FALSE, arg |-> 0, q |-> 0]

\* A backend message: its type byte, the authentication code or the status
\* byte it carries, and the execute() call whose query it answers (0: none).
Message(type, arg, q) == [b |-> type, msg |-> TRUE, arg |-> arg, q |-> q]

\* A message written to the socket: what it is and the number it carries (the
\* proposed version, the security level, the authentication scheme, the
\* execute() call of a query).
Wrote(m, n) == [m |-> m, n |-> n]

StatusBytes == {TRANSACTION_STATUS_IDLE, TRANSACTION_STATUS_IN_BLOCK}

\* The versions a server asks the client to fall back to: one below the
\* minimum, one in range, one above the version first proposed.
DowngradeDigits == {1, 5, 7}

Proposals == Cardinality({k \in 1..Len(written) : written[k].m = "version"})

\* What the server sends once authentication succeeded, up to ready-for-query.
ReadyTail ==
  {<<Message(MESSAGE_TYPE_READY_FOR_QUERY, s, 0)>> : s \in StatusBytes}
    \cup {<<Message(MESSAGE_TYPE_BACKEND_KEY_DATA, 0, 0),
            Message(MESSAGE_TYPE_READY_FOR_QUERY, TRANSACTION_STATUS_IDLE, 0)>>,
          <<Message(MESSAGE_TYPE_AUTHENTICATION, AUTH_REQ_OK, 0),
            Message(MESSAGE_TYPE_READY_FOR_QUERY, TRANSACTION_STATUS_IN_BLOCK, 0)>>,
          <<Message(MESSAGE_TYPE_AUTHENTICATION, AUTH_REQ_PASSWORD, 0)>>,
          <<Message(MESSAGE_TYPE_ERROR_RESPONSE, 0, 0)>>}

AuthenticationOk == {<<Message(MESSAGE_TYPE_AUTHENTICATION, AUTH_REQ_OK, 0)>> \o tl : tl \in ReadyTail}

\* The response streams of a query: rows, a bare command completion, an error.
QueryReplies(q) ==
  {<<Message(MESSAGE_TYPE_ROW_DESCRIPTION, 0, q), Message(MESSAGE_TYPE_DATA_ROW, 0, q),
     Message(MESSAGE_TYPE_READY_FOR_QUERY, TRANSACTION_STATUS_IN_BLOCK, q)>>,
   <<Message(MESSAGE_TYPE_COMMAND_COMPLETE, 0, q),
     Message(MESSAGE_TYPE_READY_FOR_QUERY, TRANSACTION_STATUS_IDLE, q)>>,
   <<Message(MESSAGE_TYPE_ERROR_RESPONSE, 0, q),
     Message(MESSAGE_TYPE_READY_FOR_QUERY, TRANSACTION_STATUS_IDLE, q)>>}

\* The replies of the server to a message of the client.
Replies(w) ==
  CASE w.m = "version" ->
         {<<Byte(AckN)>>, <<Byte(AckE)>>, <<Byte(OtherByte)>>}
           \cup (IF Proposals < MaxProposals
                 THEN {<<Byte(AckM), Byte(Digit0 + d)>> : d \in DowngradeDigits}
                 ELSE {})
    [] w.m \in {"database", "user", "pid", "client type"} ->
         {<<Byte(AckN)>>, <<Byte(OtherByte)>>}
    [] w.m = "security" ->
         {<<Byte(AckN)>>, <<Byte(AckS)>>, <<Byte(AckE)>>, <<Byte(OtherByte)>>}
    [] w.m \in {"protocol", "ssl connect"} ->
         {<<Byte(AckN)>>, <<Byte(AckE)>>, <<Byte(OtherByte)>>}
    [] w.m = "done" ->
         AuthenticationOk
           \cup {<<Message(MESSAGE_TYPE_AUTHENTICATION, a, 0)>> :
                   a \in {AUTH_REQ_PASSWORD, AUTH_REQ_MD5, AUTH_REQ_SHA256, AUTH_REQ_KRB5}}
           \cup {<<Message(MESSAGE_TYPE_ERROR_RESPONSE, 0, 0)>>,
                 <<Message(MESSAGE_TYPE_BACKEND_KEY_DATA, 0, 0)>>}
    [] w.m = "credential" ->
         AuthenticationOk
           \cup {<<Message(MESSAGE_TYPE_AUTHENTICATION, AUTH_REQ_PASSWORD, 0)>>,
                 <<Message(MESSAGE_TYPE_ERROR_RESPONSE, 0, 0)>>}
    [] w.m = "query" -> QueryReplies(w.n)
    [] OTHER -> {<<>>}

\* ---- the promise returned by connect() --------------------------------------
\* A promise that could be settled again.
SettleAgain(p, state, err) == [state |-> state, error |-> err]

\* resolve() and reject(err) settle a promise once; later calls do nothing.
Settle(p, state, err) ==
  IF p.state = "pending" THEN [state |-> state, error |-> err] ELSE p

\* ---- the handshake coroutine -------------------------------------------------
\* The handshake throws err: the 'connect' handler catches it and rejects.
Fail(err, buf) ==
  /\ phase' = "failed"
  /\ buffer' = buf
  /\ connectPromise' = Settle(connectPromise, "rejected", err)
  /\ UNCHANGED written

\* The handshake writes the messages send (sendMessage / sendRawMessage throw
\* without a socket) and suspends in the read of phase next (waitForData
\* rejects when nothing is buffered and there is no socket).
Continue(next, send, buf) ==
  IF ~socket /\ (send # <<>> \/ buf = <<>>)
  THEN Fail("ConnectionClosedError", buf)
  ELSE /\ phase' = next
       /\ buffer' = buf
       /\ written' = written \o send
       /\ UNCHANGED connectPromise

\* performHandshake() returned: the 'connect' handler calls resolve().
Finish(buf) ==
  /\ phase' = "done"
  /\ buffer' = buf
  /\ connectPromise' = Settle(connectPromise, "resolved", "none")
  /\ UNCHANGED written

\* connect(): with a socket already set it throws and changes nothing; else it
\* creates the socket and returns the pending promise.  A later connect() is
\* made once the handshake of the earlier one has ended.
Connect ==
  /\ ~socket
  /\ phase \in {"none", "done", "failed"}
  /\ connects < MaxConnects
  /\ socket' = TRUE
  /\ phase' = "tcp"
  /\ connectPromise' = [state |-> "pending", error |-> "none"]
  /\ connects' = connects + 1
  /\ served' = Len(written)
  /\ broken' = FALSE
  /\ did' = "other"
  /\ UNCHANGED <<securityLevel, buffer, connectionClosed, transactionStatus, hsVersion,
                 version, written, calls>>

\* The socket's 'connect' event: performHandshake() starts, negotiateHandshake
\* proposes CP_VERSION_6 and waits for the reply.
SocketConnected ==
  /\ phase = "tcp"
  /\ socket /\ ~broken
  /\ version' = CP_VERSION_6
  /\ Continue("version", <<Wrote("version", CP_VERSION_6)>>, buffer)
  /\ did' = "other"
  /\ UNCHANGED <<securityLevel, socket, connectionClosed, transactionStatus, hsVersion,
                 served, broken, connects, calls>>

\* A negotiation that proposes whatever version the server names.
NegotiateHandshakeAnyVersion ==
  /\ phase \in {"version", "version digit"}
  /\ buffer # <<>>
  /\ LET b == Head(buffer).b
         rest == Tail(buffer)
     IN IF phase = "version"
        THEN /\ UNCHANGED version
             /\ IF b = AckN
                THEN /\ hsVersion' = version
                     /\ Continue("database", <<Wrote("database", 0)>>, rest)
                ELSE /\ UNCHANGED hsVersion
                     /\ IF b = AckM
                        THEN Continue("version digit", <<>>, rest)
                        ELSE Fail("InterfaceError", rest)
        ELSE /\ version' = b - Digit0
             /\ UNCHANGED hsVersion
             /\ Continue("version", <<Wrote("version", b - Digit0)>>, rest)
  /\ did' = "other"
  /\ UNCHANGED <<securityLevel, socket, connectionClosed, transactionStatus,
                 served, broken, connects, calls>>

\* negotiateHandshake resumed with the reply to a proposal, or with the byte
\* after 'M'.
NegotiateHandshake ==
  /\ phase \in {"version", "version digit"}
  /\ buffer # <<>>
  /\ LET b == Head(buffer).b
         rest == Tail(buffer)
     IN IF phase = "version"
        THEN /\ UNCHANGED version
             /\ IF b = AckN
                THEN /\ hsVersion' = version
                     /\ Continue("database", <<Wrote("database", 0)>>, rest)
                ELSE /\ UNCHANGED hsVersion
                     /\ IF b = AckM
                        THEN Continue("version digit", <<>>, rest)
                        ELSE Fail("InterfaceError", rest)
        ELSE /\ version' = b - Digit0
             /\ UNCHANGED hsVersion
             /\ IF b - Digit0 < CP_VERSION_2
                THEN Fail("InterfaceError", rest)
                ELSE Continue("version", <<Wrote("version", b - Digit0)>>, rest)
  /\ did' = "other"
  /\ UNCHANGED <<securityLevel, socket, connectionClosed, transactionStatus,
                 served, broken, connects, calls>>

\* upgradeToTLS() called: without a socket it throws InterfaceError, else it
\* starts the TLS handshake on the socket and waits for its outcome.
UpgradeStart(buf) ==
  IF ~socket
  THEN Fail("InterfaceError", buf)
  ELSE /\ phase' = "tls"
       /\ buffer' = buf
       /\ UNCHANGED <<written, connectPromise>>

\* A handshake that goes from the security negotiation straight to the
\* protocol versions, without the user field.
SecurityReplySkipsUser(b, buf) ==
  IF b = AckE THEN Fail("InterfaceError", buf)
  ELSE Continue("protocol", <<Wrote("protocol", 0)>>, buf)

\* What sendHandshakeInfo does with the reply to the security negotiation.
SecurityReply(b, buf) ==
  IF b = AckS THEN UpgradeStart(buf)
  ELSE IF b = AckE THEN Fail("InterfaceError", buf)
  ELSE Continue("user", <<Wrote("user", 0)>>, buf)

\* sendHandshakeInfo resumed with the reply to the field it sent last.
SendHandshakeInfo ==
  /\ phase \in {"database", "security", "user", "protocol", "pid", "client type"}
  /\ buffer # <<>>
  /\ LET b == Head(buffer).b
         rest == Tail(buffer)
     IN CASE phase = "database" ->
               IF b # AckN THEN Fail("InterfaceError", rest)
               ELSE Continue("security", <<Wrote("security", securityLevel)>>, rest)
          [] phase = "security" -> SecurityReply(b, rest)
          [] phase = "user" ->
               IF b # AckN THEN Fail("InterfaceError", rest)
               ELSE Continue("protocol", <<Wrote("protocol", 0)>>, rest)
          [] phase = "protocol" ->
               IF b # AckN THEN Fail("InterfaceError", rest)
               ELSE Continue("pid", <<Wrote("pid", 0)>>, rest)
          [] phase = "pid" ->
               IF b # AckN THEN Fail("InterfaceError", rest)
               ELSE Continue("client type", <<Wrote("client type", 0)>>, rest)
          [] phase = "client type" ->
               IF b # AckN THEN Fail("InterfaceError", rest)
               ELSE Continue("auth", <<Wrote("done", 0)>>, rest)
  /\ did' = "other"
  /\ UNCHANGED <<securityLevel, socket, connectionClosed, transactionStatus, hsVersion,
                 version, served, broken, connects, calls>>

\* The TLS socket's 'secureConnect' (ok) or 'error' event: on secureConnect
\* the TLS socket becomes this.socket and the SSL-connect confirmation is sent.
TlsEvent(ok) ==
  /\ phase = "tls"
  /\ ok => (socket /\ ~broken)
  /\ IF ok
     THEN /\ phase' = "tls confirm"
          /\ written' = Append(written, Wrote("ssl connect", securityLevel))
          /\ UNCHANGED <<buffer, connectPromise>>
     ELSE Fail("OperationalError", buffer)
  /\ did' = "other"
  /\ UNCHANGED <<securityLevel, socket, connectionClosed, transactionStatus, hsVersion,
                 version, served, broken, connects, calls>>

\* upgradeToTLS resumed with the reply to the SSL-connect confirmation.
TlsConfirm ==
  /\ phase = "tls confirm"
  /\ buffer # <<>>
  /\ IF Head(buffer).b = AckN
     THEN Continue("user", <<Wrote("user", 0)>>, Tail(buffer))
     ELSE Fail("InterfaceError", Tail(buffer))
  /\ did' = "other"
  /\ UNCHANGED <<securityLevel, socket, connectionClosed, transactionStatus, hsVersion,
                 version, served, broken, connects, calls>>

\* An authentication that takes any authentication message after the
\* credential as success, whatever its code.
AuthenticateAnyCode ==
  /\ phase \in {"auth", "auth ok"}
  /\ buffer # <<>>
  /\ LET tok == Head(buffer)
         rest == Tail(buffer)
     IN IF phase = "auth"
        THEN IF tok.b = MESSAGE_TYPE_ERROR_RESPONSE THEN Fail("OperationalError", rest)
             ELSE IF tok.b # MESSAGE_TYPE_AUTHENTICATION THEN Fail("InterfaceError", rest)
             ELSE IF tok.arg = AUTH_REQ_OK THEN Continue("ready", <<>>, rest)
             ELSE IF tok.arg \in {AUTH_REQ_PASSWORD, AUTH_REQ_MD5, AUTH_REQ_SHA256}
                  THEN Continue("auth ok", <<Wrote("credential", tok.arg)>>, rest)
             ELSE Fail("InterfaceError", rest)
        ELSE IF tok.b # MESSAGE_TYPE_AUTHENTICATION THEN Fail("InterfaceError", rest)
             ELSE Continue("ready", <<>>, rest)
  /\ did' = "other"
  /\ UNCHANGED <<securityLevel, socket, connectionClosed, transactionStatus, hsVersion,
                 version, served, broken, connects, calls>>

\* authenticate resumed with the authentication request, or waitForAuthOk
\* with the reply to the credential.
Authenticate ==
  /\ phase \in {"auth", "auth ok"}
  /\ buffer # <<>>
  /\ LET tok == Head(buffer)
         rest == Tail(buffer)
     IN IF phase = "auth"
        THEN IF tok.b = MESSAGE_TYPE_ERROR_RESPONSE THEN Fail("OperationalError", rest)
             ELSE IF tok.b # MESSAGE_TYPE_AUTHENTICATION THEN Fail("InterfaceError", rest)
             ELSE IF tok.arg = AUTH_REQ_OK THEN Continue("ready", <<>>, rest)
             ELSE IF tok.arg \in {AUTH_REQ_PASSWORD, AUTH_REQ_MD5, AUTH_REQ_SHA256}
                  THEN Continue("auth ok", <<Wrote("credential", tok.arg)>>, rest)
             ELSE Fail("InterfaceError", rest)
        ELSE IF tok.b # MESSAGE_TYPE_AUTHENTICATION THEN Fail("InterfaceError", rest)
             ELSE IF tok.arg # AUTH_REQ_OK THEN Fail("OperationalError", rest)
             ELSE Continue("ready", <<>>, rest)
  /\ did' = "other"
  /\ UNCHANGED <<securityLevel, socket, connectionClosed, transactionStatus, hsVersion,
                 version, served, broken, connects, calls>>

\* waitForReady resumed with the next message.
WaitForReady ==
  /\ phase = "ready"
  /\ buffer # <<>>
  /\ LET tok == Head(buffer)
         rest == Tail(buffer)
     IN IF tok.b = MESSAGE_TYPE_AUTHENTICATION
        THEN /\ UNCHANGED transactionStatus
             /\ IF tok.arg # AUTH_REQ_OK THEN Fail("OperationalError", rest)
                ELSE Continue("ready", <<>>, rest)
        ELSE IF tok.b = MESSAGE_TYPE_READY_FOR_QUERY
        THEN /\ transactionStatus' = tok.arg
             /\ Finish(rest)
        ELSE /\ UNCHANGED transactionStatus
             /\ IF tok.b = MESSAGE_TYPE_ERROR_RESPONSE THEN Fail("DatabaseError", rest)
                ELSE Continue("ready", <<>>, rest)
  /\ did' = "other"
  /\ UNCHANGED <<securityLevel, socket, connectionClosed, hsVersion,
                 version, served, broken, connects, calls>>

\* ---- the transport -------------------------------------------------------------
\* A 'data' event: the server's reply to the next message it has not answered
\* is appended to this.buffer.
ServerReply ==
  /\ socket /\ ~broken
  /\ phase # "tcp"
  /\ served < Len(written)
  /\ \E r \in Replies(written[served + 1]) : buffer' = buffer \o r
  /\ served' = served + 1
  /\ did' = "other"
  /\ UNCHANGED <<securityLevel, socket, connectionClosed, transactionStatus, hsVersion,
                 version, phase, connectPromise, written, broken, connects, calls>>

\* The handshake is suspended in waitForData with its listeners on the socket.
HandshakeWaits ==
  /\ phase \in {"version", "version digit", "database", "security", "tls confirm", "user",
                "protocol", "pid", "client type", "auth", "auth ok", "ready"}
  /\ buffer = <<>>

\* A call of execute() ended: how, and with the messages it had folded in.
Ended(call, out) == [call EXCEPT !.at = "done", !.out = out]

\* The socket's 'error' event: connect()'s handler rejects, and every read
\* suspended in waitForData rejects with OperationalError.
SocketError ==
  /\ socket /\ ~broken
  /\ phase # "tls"
  /\ broken' = TRUE
  /\ connectPromise' = Settle(connectPromise, "rejected", "OperationalError")
  /\ phase' = IF HandshakeWaits THEN "failed" ELSE phase
  /\ calls' = [i \in Queries |->
                 IF calls[i].at = "reading" /\ buffer = <<>>
                 THEN Ended(calls[i], "OperationalError") ELSE calls[i]]
  /\ did' = "other"
  /\ UNCHANGED <<securityLevel, socket, buffer, connectionClosed, transactionStatus,
                 hsVersion, version, written, served, connects>>

\* The socket's 'timeout' event: connect()'s handler rejects; nothing else.
SocketTimeout ==
  /\ socket /\ ~broken
  /\ connectPromise.state = "pending"
  /\ connectPromise' = Settle(connectPromise, "rejected", "OperationalError")
  /\ did' = "other"
  /\ UNCHANGED <<securityLevel, socket, buffer, connectionClosed, transactionStatus,
                 hsVersion, version, phase, written, served, broken, connects, calls>>

\* ---- execute() ------------------------------------------------------------------
\* connect() has been called and its handshake has neither completed nor failed.
HandshakeInProgress == phase \notin {"none", "done", "failed"}

Started == {i \in Queries : calls[i].at # "idle"}

\* A guard that looks at the closed flag only.
ExecuteRefusedWhenClosed == connectionClosed

\* The guard of execute(): it throws ConnectionClosedError when the Connection
\* is closed or has no socket.
ExecuteRefused == connectionClosed \/ ~socket

\* execute(sql): refused, or the query message is written at once
\* (executeSimple) and the call suspends in readQueryResponse.  Calls are
\* numbered in the order they are made.
ConnectionExecute(i) ==
  /\ calls[i].at = "idle"
  /\ \A j \in Queries : j < i => calls[j].at # "idle"
  /\ HandshakeInProgress => Cardinality(Started) < MaxEarlyQueries
  /\ IF ExecuteRefused
     THEN /\ calls' = [calls EXCEPT ![i] = Ended(@, "ConnectionClosedError")]
          /\ UNCHANGED written
     ELSE /\ calls' = [calls EXCEPT ![i].at = "reading",
                                   ![i].alone = \A k \in Queries : calls[k].at # "reading"]
          /\ written' = Append(written, Wrote("query", i))
  /\ did' = "other"
  /\ UNCHANGED <<securityLevel, socket, buffer, connectionClosed, transactionStatus,
                 hsVersion, version, phase, connectPromise, served, broken, connects>>

\* A reader that skips error responses as it skips notices.
TookSkippingErrors(call, tok, more) ==
  LET folded == [call EXCEPT !.from = @ \cup {tok.q}]
  IN IF tok.b = MESSAGE_TYPE_READY_FOR_QUERY THEN Ended(folded, "result")
     ELSE IF more THEN call ELSE Ended(call, "ConnectionClosedError")

\* readQueryResponse took the message tok: the call folds it into its result,
\* returns on ready-for-query, throws on an error response, and otherwise
\* reads on (waitForData rejects when nothing is buffered and the socket is gone).
Took(call, tok, more) ==
  LET folded == [call EXCEPT !.from = @ \cup {tok.q}]
  IN IF tok.b = MESSAGE_TYPE_READY_FOR_QUERY THEN Ended(folded, "result")
     ELSE IF tok.b = MESSAGE_TYPE_ERROR_RESPONSE THEN Ended(folded, "DatabaseError")
     ELSE LET on == IF tok.b = MESSAGE_TYPE_ROW_DESCRIPTION THEN [folded EXCEPT !.fields = TRUE]
                    ELSE IF tok.b = MESSAGE_TYPE_DATA_ROW
                         THEN (IF call.fields THEN folded ELSE call)
                    ELSE IF tok.b = MESSAGE_TYPE_COMMAND_COMPLETE THEN folded
                    ELSE call
          IN IF more THEN on ELSE Ended(on, "ConnectionClosedError")

\* readQueryResponse of call i resumed with the next message in the buffer.
ReadQueryResponse(i) ==
  /\ calls[i].at = "reading"
  /\ buffer # <<>>
  /\ LET tok == Head(buffer)
     IN /\ calls' = [calls EXCEPT ![i] = Took(@, tok, Tail(buffer) # <<>> \/ socket)]
        /\ transactionStatus' =
             IF tok.b = MESSAGE_TYPE_READY_FOR_QUERY THEN tok.arg ELSE transactionStatus
  /\ buffer' = Tail(buffer)
  /\ did' = "other"
  /\ UNCHANGED <<securityLevel, socket, connectionClosed, hsVersion, version, phase,
                 connectPromise, written, served, broken, connects>>

\* ---- close() --------------------------------------------------------------------
\* A close() without the guard of its first line.
ConnectionCloseUnguarded ==
  /\ written' = Append(written, Wrote("terminate", 0))
  /\ socket' = FALSE
  /\ connectionClosed' = TRUE
  /\ did' = "close"
  /\ UNCHANGED <<securityLevel, buffer, transactionStatus, hsVersion, version, phase,
                 connectPromise, served, broken, connects, calls>>

\* close(): returns at once on a closed Connection or one without a socket;
\* else it writes terminate (a failing write is swallowed), destroys the
\* socket and marks the Connection closed, all before it returns.
ConnectionClose ==
  /\ IF connectionClosed \/ ~socket
     THEN UNCHANGED <<socket, connectionClosed, written>>
     ELSE /\ \E sent \in (IF broken THEN BOOLEAN ELSE {TRUE}) :
               written' = IF sent THEN Append(written, Wrote("terminate", 0)) ELSE written
          /\ socket' = FALSE
          /\ connectionClosed' = TRUE
  /\ did' = "close"
  /\ UNCHANGED <<securityLevel, buffer, transactionStatus, hsVersion, version, phase,
                 connectPromise, served, broken, connects, calls>>

\* ---- the Connection specification --------------------------------------------
SmallestPool == [min |-> 0, max |-> 1, validateOnBorrow |-> FALSE, validateOnReturn |-> FALSE]

ConnectionInit ==
  /\ InitWith(SmallestPool)
  /\ \E lvl \in SecurityLevels : NewConnection(lvl)
  /\ NoRow
  /\ NoStatement
  /\ NoReader

ConnectionNext ==
  \/ Connect /\ UNCHANGED <<poolVars, rowVars, statementVars, readerVars>>
  \/ SocketConnected /\ UNCHANGED <<poolVars, rowVars, statementVars, readerVars>>
  \/ NegotiateHandshake /\ UNCHANGED <<poolVars, rowVars, statementVars, readerVars>>
  \/ SendHandshakeInfo /\ UNCHANGED <<poolVars, rowVars, statementVars, readerVars>>
  \/ \E ok \in BOOLEAN : TlsEvent(ok) /\ UNCHANGED <<poolVars, rowVars, statementVars, readerVars>>
  \/ TlsConfirm /\ UNCHANGED <<poolVars, rowVars, statementVars, readerVars>>
  \/ Authenticate /\ UNCHANGED <<poolVars, rowVars, statementVars, readerVars>>
  \/ WaitForReady /\ UNCHANGED <<poolVars, rowVars, statementVars, readerVars>>
  \/ ServerReply /\ UNCHANGED <<poolVars, rowVars, statementVars, readerVars>>
  \/ SocketError /\ UNCHANGED <<poolVars, rowVars, statementVars, readerVars>>
  \/ SocketTimeout /\ UNCHANGED <<poolVars, rowVars, statementVars, readerVars>>
  \/ \E i \in Queries : ConnectionExecute(i) /\ UNCHANGED <<poolVars, rowVars, statementVars, readerVars>>
  \/ \E i \in Queries : ReadQueryResponse(i) /\ UNCHANGED <<poolVars, rowVars, statementVars, readerVars>>
  \/ ConnectionClose /\ UNCHANGED <<poolVars, rowVars, statementVars, readerVars>>

ConnectionSpec == ConnectionInit /\ [][ConnectionNext]_vars

ConnectionTypeOK ==
  /\ securityLevel \in SecurityLevels
  /\ socket \in BOOLEAN /\ connectionClosed \in BOOLEAN /\ broken \in BOOLEAN
  /\ transactionStatus \in StatusBytes
  /\ connectPromise.state \in {"none", "pending", "resolved", "rejected"}
  /\ served \in 0..Len(written)
  /\ connects \in 0..MaxConnects
  /\ \A i \in Queries : calls[i].at \in {"idle", "reading", "done"}

\* ---- properties of the Connection ------------------------------------------------
\* The position in written of the last message of kind m, 0 if there is none.
LastWritten(m) ==
  LET at == {k \in 1..Len(written) : written[k].m = m}
  IN IF at = {} THEN 0 ELSE CHOOSE k \in at : \A j \in at : j <= k

\* The messages of a whole handshake were written, in the order of the protocol.
WholeHandshakeRan ==
  /\ 0 < LastWritten("version")
  /\ LastWritten("version") < LastWritten("database")
  /\ LastWritten("database") < LastWritten("security")
  /\ LastWritten("security") < LastWritten("user")
  /\ LastWritten("user") < LastWritten("protocol")
  /\ LastWritten("protocol") < LastWritten("pid")
  /\ LastWritten("pid") < LastWritten("client type")
  /\ LastWritten("client type") < LastWritten("done")
  /\ hsVersion # 0

\* C11: connect() resolves only in a step in which the handshake, all of its
\* messages sent, reads a ready-for-query message, and the transaction status
\* recorded then is the status byte of that message; when the handshake fails
\* the promise of connect() is rejected, and a rejected promise never resolves.
C11_ConnectResolvesWhenReady ==
  [][/\ (connectPromise.state # "resolved" /\ connectPromise'.state = "resolved")
          => /\ phase = "ready" /\ phase' = "done"
             /\ buffer # <<>>
             /\ Head(buffer).b = MESSAGE_TYPE_READY_FOR_QUERY
             /\ transactionStatus' = Head(buffer).arg
             /\ WholeHandshakeRan
     /\ (phase # "failed" /\ phase' = "failed") => connectPromise'.state = "rejected"
     /\ connectPromise.state = "rejected" => connectPromise'.state # "resolved"]_vars

\* connect() has resolved on a ready-for-query message whose status byte is not
\* the status a new Connection starts with.
C11_Witness ==
  /\ connectPromise.state = "resolved"
  /\ phase = "done"
  /\ transactionStatus = TRANSACTION_STATUS_IN_BLOCK
  /\ \A i \in Queries : calls[i].at = "idle"

\* C12: while the handshake of a connect() is in progress no step writes a
\* query message to the socket.
C12_NoQueryDuringHandshake ==
  [][HandshakeInProgress
       => \A k \in (Len(written) + 1)..Len(written') : written'[k].m # "query"]_vars

\* C13: while an execute() call is suspended in its read of the response, a
\* call made after it writes no message and takes no message from the buffer;
\* and a call that returns a result built it from the messages of its own
\* query only.
C13_SequentialIO ==
  [][/\ \A i, j \in Queries :
          (i < j /\ calls[i].at = "reading")
            => /\ calls[j].at = "idle" => calls'[j].at # "reading"
               /\ calls[j].at = "reading" => calls'[j] = calls[j]
     /\ \A i \in Queries : calls'[i].out = "result" => calls'[i].from = {i}]_vars

\* C14: an execute() call made on a Connection that has no socket (connect()
\* was never called) or that is closed fails with ConnectionClosedError, and
\* the step writes nothing and changes nothing else of the Connection.
C14_RefusedExecute ==
  [][\A i \in Queries :
       (calls[i].at = "idle" /\ calls'[i].at # "idle" /\ (connectionClosed \/ ~socket))
         => /\ calls'[i] = [NewCall EXCEPT !.at = "done", !.out = "ConnectionClosedError"]
            /\ \A j \in Queries : j # i => calls'[j] = calls[j]
            /\ UNCHANGED <<written, socket, buffer, connectionClosed, transactionStatus,
                           hsVersion, version, phase, connectPromise, served, broken>>]_vars

\* The first execute() was refused before connect(), which then ran to its
\* end; the second was refused after close(): no query was ever written.
C14_Witness ==
  /\ \A i \in Queries : calls[i].at = "done" /\ calls[i].out = "ConnectionClosedError"
  /\ connectPromise.state = "resolved"
  /\ connectionClosed
  /\ LastWritten("query") = 0
  /\ LastWritten("terminate") = Len(written)

\* C15: a close() on a Connection that is closed or has no socket changes
\* nothing and writes nothing; on any other Connection it writes at most one
\* message, a terminate (exactly one unless the socket has failed and the
\* write is lost), destroys the socket and marks the Connection closed.  It
\* never fails, and nothing else of the Connection changes.
C15_CloseIdempotent ==
  [][did' = "close"
       => /\ IF connectionClosed \/ ~socket
             THEN UNCHANGED <<written, socket, connectionClosed>>
             ELSE /\ ~socket' /\ connectionClosed'
                  /\ \/ written' = Append(written, Wrote("terminate", 0))
                     \/ broken /\ written' = written
          /\ UNCHANGED <<buffer, transactionStatus, hsVersion, version, phase,
                         connectPromise, calls>>]_vars

\* close() has just run on a Connection whose connect() had resolved: the
\* terminate message is the last one written, and the only one.
C15_Witness ==
  /\ did = "close"
  /\ connectPromise.state = "resolved"
  /\ connectionClosed /\ ~socket
  /\ written # <<>>
  /\ written[Len(written)].m = "terminate"
  /\ Cardinality({k \in 1..Len(written) : written[k].m = "terminate"}) = 1

\* C16: on a Connection configured with securityLevel = 1, when the handshake
\* reads the reply 'S' to the security negotiation it fails, connect()
\* rejects with an InterfaceError (unless it was rejected before), and the step
\* writes nothing.
C16_UnencryptedOnlyRefusesS ==
  [][(/\ securityLevel = 1
      /\ phase = "security" /\ phase' # "security"
      /\ buffer # <<>> /\ Head(buffer).b = AckS)
       => /\ phase' = "failed"
          /\ connectPromise.state = "pending"
               => connectPromise' = [state |-> "rejected", error |-> "InterfaceError"]
          /\ written' = written]_vars

\* ==== the row codec (parseDataRow and the test encoder createDataRowBuffer) ====
\* A JavaScript string is the sequence of its character codes, a Buffer the
\* sequence of its bytes.  The values of a row are null, a string, a number or
\* NaN.  An array row is the sequence of its values; an object row is the
\* sequence of its properties in insertion order, each a name and a value.
Null == [t |-> "null", s |-> <<>>, n |-> 0]
Str(s) == [t |-> "string", s |-> s, n |-> 0]
Num(n) == [t |-> "number", s |-> <<>>, n |-> n]
NaN == [t |-> "NaN", s |-> <<>>, n |-> 0]

\* Type identifiers of the converter table: INTEGER and VARCHAR.
INTEGER == 23
VARCHAR == 1043

\* Buffer.from(str, 'utf8') for characters below U+0800.
RECURSIVE stringToBuffer(_)
stringToBuffer(str) ==
  IF str = <<>> THEN <<>>
  ELSE LET c == Head(str)
       IN (IF c < 128 THEN <<c>> ELSE <<192 + (c \div 64), 128 + (c % 64)>>)
            \o stringToBuffer(Tail(str))

\* buffer.toString('utf8'): one- and two-byte sequences are decoded, any other
\* byte becomes U+FFFD.
RECURSIVE bufferToString(_)
bufferToString(buf) ==
  IF buf = <<>> THEN <<>>
  ELSE LET b == Head(buf)
       IN IF b < 128 THEN <<b>> \o bufferToString(Tail(buf))
          ELSE IF /\ b >= 194 /\ b < 224 /\ Len(buf) >= 2
                  /\ buf[2] >= 128 /\ buf[2] < 192
               THEN <<(b - 192) * 64 + (buf[2] - 128)>> \o bufferToString(Tail(Tail(buf)))
               ELSE <<65533>> \o bufferToString(Tail(buf))

\* parseInt(str, 10) of a string without sign or leading blanks: the number
\* written by its leading decimal digits, NaN when it has none.
RECURSIVE LeadingDigits(_)
LeadingDigits(str) ==
  IF str = <<>> \/ Head(str) < 48 \/ Head(str) > 57 THEN <<>>
  ELSE <<Head(str) - 48>> \o LeadingDigits(Tail(str))

RECURSIVE DecimalValue(_)
DecimalValue(ds) ==
  IF ds = <<>> THEN 0 ELSE DecimalValue(SubSeq(ds, 1, Len(ds) - 1)) * 10 + ds[Len(ds)]

bufferToInt(buf) ==
  LET ds == LeadingDigits(bufferToString(buf))
  IN IF ds = <<>> THEN NaN ELSE Num(DecimalValue(ds))

\* getTypeConverter(oid).decode(buffer)
decode(oid, buf) ==
  IF oid = INTEGER THEN bufferToInt(buf) ELSE Str(bufferToString(buf))

\* writeInt32BE / readInt32BE: a 32-bit two's-complement integer, big-endian.
writeInt32BE(x) ==
  <<(x \div 16777216) % 256, (x \div 65536) % 256, (x \div 256) % 256, x % 256>>

readInt32BE(buf, at) ==
  LET high == IF buf[at + 1] >= 128 THEN buf[at + 1] - 256 ELSE buf[at + 1]
  IN high * 16777216 + buf[at + 2] * 65536 + buf[at + 3] * 256 + buf[at + 4]

\* Math.ceil(columnCount / 8)
bitmapLen(columnCount) == (columnCount + 7) \div 8

RECURSIVE Pow2(_)
Pow2(k) == IF k = 0 THEN 1 ELSE 2 * Pow2(k - 1)

RECURSIVE SumOver(_, _)
SumOver(S, f) ==
  IF S = {} THEN 0 ELSE LET x == CHOOSE y \in S : TRUE IN f[x] + SumOver(S \ {x}, f)

RECURSIVE Concat(_)
Concat(ss) == IF ss = <<>> THEN <<>> ELSE Head(ss) \o Concat(Tail(ss))

\* createDataRowBuffer(values): the bitmap with bit 7 - (i % 8) of byte
\* floor(i / 8) set for every value i (from 0) that is not null, then for each
\* of these the length of its UTF-8 bytes plus 4 and the bytes.
createDataRowBuffer(vals) ==
  LET columnCount == Len(vals)
      bitmap == [k \in 1..bitmapLen(columnCount) |->
                   SumOver({i \in 0..(columnCount - 1) : i \div 8 = k - 1 /\ vals[i + 1] # Null},
                           [i \in 0..(columnCount - 1) |-> Pow2(7 - (i % 8))])]
      valueBuffers == [i \in 1..columnCount |->
                         IF vals[i] = Null THEN <<>>
                         ELSE LET valueData == stringToBuffer(vals[i].s)
                              IN writeInt32BE(Len(valueData) + 4) \o valueData]
  IN bitmap \o Concat(valueBuffers)

\* A reading of the bitmap that takes the lowest bit of a byte first.
BitmapLsbFirst(buf, columnCount) ==
  [i \in 0..(8 * bitmapLen(columnCount) - 1) |-> (buf[(i \div 8) + 1] \div Pow2(i % 8)) % 2]

\* parseDataRow, the bitmap: for each byte the bits 7 down to 0; entry i (from
\* 0) is the bit of column i.
Bitmap(buf, columnCount) ==
  [i \in 0..(8 * bitmapLen(columnCount) - 1) |-> (buf[(i \div 8) + 1] \div Pow2(7 - (i % 8))) % 2]

\* A property assignment that leaves an existing property alone.
AssignOnce(obj, name, value) ==
  IF \E k \in 1..Len(obj) : obj[k].name = name THEN obj
  ELSE Append(obj, [name |-> name, value |-> value])

\* row[name] = value on an object row: an existing property keeps its place
\* and takes the new value, a new one is added at the end.
Assign(obj, name, value) ==
  IF \E k \in 1..Len(obj) : obj[k].name = name
  THEN [k \in 1..Len(obj) |-> IF obj[k].name = name THEN [obj[k] EXCEPT !.value = value] ELSE obj[k]]
  ELSE Append(obj, [name |-> name, value |-> value])

\* parseDataRow, the loop over the columns from column i (from 0) on: r is the
\* row built so far, idx the values dataIdx had at the start of each column so
\* far and has now (its last entry).
RECURSIVE Columns(_, _, _, _, _, _)
Columns(buf, flds, mode, i, r, idx) ==
  IF i = Len(flds) THEN [parsed |-> TRUE, value |-> r, dataIdx |-> idx]
  ELSE LET field == flds[i + 1]
           dataIdx == idx[Len(idx)]
           isNull == Bitmap(buf, Len(flds))[i] = 0
           valueLength == readInt32BE(buf, dataIdx)
           valueBuffer == SubSeq(buf, dataIdx + 4 + 1, dataIdx + 4 + valueLength - 4)
           value == IF isNull THEN Null ELSE decode(field.typeOid, valueBuffer)
           next == IF isNull THEN dataIdx ELSE dataIdx + 4 + (valueLength - 4)
       IN Columns(buf, flds, mode, i + 1,
                  IF mode = "array" THEN Append(r, value) ELSE Assign(r, field.name, value),
                  Append(idx, next))

\* parseDataRow(data, fields) with options.rowMode = mode.
parseDataRow(buf, flds, mode) ==
  Columns(buf, flds, mode, 0, <<>>, <<bitmapLen(Len(flds))>>)

\* ---- the inputs: rows and their column descriptions ------------------------------
\* The value of column i (from 1) when it is not null, in the two samples:
\* decimal numerals of one, two and three digits in turn; "é" and the empty
\* string in turn.
Sample(which, i) ==
  IF which = "numerals"
  THEN Str([k \in 1..(((i - 1) % 3) + 1) |-> 48 + ((i - 1) % 3) + 1])
  ELSE IF i % 2 = 1 THEN Str(<<233>>) ELSE Str(<<>>)

\* The name of column i: every column its own, or each two neighbours the same.
ColumnName(naming, i) == IF naming = "distinct" THEN i ELSE (i + 1) \div 2

RowInit ==
  /\ InitWith(SmallestPool)
  /\ NewConnection(0)
  /\ NoStatement
  /\ NoReader
  /\ rowMode \in {"object", "array"}
  /\ \E n \in 0..MaxColumns, naming \in {"distinct", "paired"}, oid \in {INTEGER, VARCHAR},
        which \in {"numerals", "accents"} :
       /\ fields = [i \in 1..n |-> [name |-> ColumnName(naming, i), typeOid |-> oid]]
       /\ \E present \in SUBSET (1..n) :
            values = [i \in 1..n |-> IF i \in present THEN Sample(which, i) ELSE Null]
  /\ data = NoBuffer
  /\ row = NotParsed

\* The test builds the buffer of a data row from the values.
Encode ==
  /\ ~data.built
  /\ data' = [built |-> TRUE, bytes |-> createDataRowBuffer(values)]
  /\ UNCHANGED <<rowMode, fields, values, row>>

\* readQueryResponse hands the data of the data-row message to parseDataRow.
Decode ==
  /\ data.built /\ ~row.parsed
  /\ row' = parseDataRow(data.bytes, fields, rowMode)
  /\ UNCHANGED <<rowMode, fields, values, data>>

RowNext ==
  \/ Encode /\ UNCHANGED <<poolVars, connectionVars, statementVars, readerVars>>
  \/ Decode /\ UNCHANGED <<poolVars, connectionVars, statementVars, readerVars>>

RowSpec == RowInit /\ [][RowNext]_vars

\* ---- properties of the row codec ------------------------------------------------
NamesDistinct ==
  \A i, j \in 1..Len(fields) : i # j => fields[i].name # fields[j].name

\* The value parseDataRow gave each column, in column order, for a row in
\* which every column can be told apart: an array row, or an object row whose
\* columns have distinct names.
ColumnValues ==
  IF rowMode = "array" THEN row.value
  ELSE [i \in 1..Len(row.value) |-> row.value[i].value]

\* The bit of column i (from 1) in a presence bitmap read most significant
\* bit first.
PresenceBit(buf, i) == (buf[((i - 1) \div 8) + 1] \div Pow2(7 - ((i - 1) % 8))) % 2

\* The bitmap of the encoded row has ceil(columnCount / 8) bytes and holds
\* the presence of each column, most significant bit first; decoding starts
\* right after it, a null column yields null and leaves dataIdx where it was,
\* any other column moves dataIdx by the length declared at dataIdx, which is
\* 4 plus the number of bytes of the value, and decoding ends at the end of
\* the buffer.
Framing ==
  LET n == Len(fields)
      buf == data.bytes
      idx == row.dataIdx
  IN /\ Len(idx) = n + 1
     /\ idx[1] = (n + 7) \div 8
     /\ idx[n + 1] = Len(buf)
     /\ \A i \in 1..n :
          IF values[i] = Null
          THEN /\ PresenceBit(buf, i) = 0
               /\ idx[i + 1] = idx[i]
               /\ (rowMode = "array" \/ NamesDistinct) => ColumnValues[i] = Null
          ELSE /\ PresenceBit(buf, i) = 1
               /\ idx[i + 1] = idx[i] + readInt32BE(buf, idx[i])
               /\ readInt32BE(buf, idx[i]) = 4 + Len(stringToBuffer(values[i].s))

\* What the converter of a column's type makes of the text of a value: the
\* text itself for VARCHAR, the number it writes (NaN if none) for INTEGER.
Converted(oid, v) ==
  IF v = Null THEN Null
  ELSE IF oid = VARCHAR THEN v
  ELSE IF LeadingDigits(v.s) = <<>> THEN NaN ELSE Num(DecimalValue(LeadingDigits(v.s)))

\* C17 as stated: the framing, and decoding the row built by
\* createDataRowBuffer(values) yields the values themselves in column order.
C17_RoundTripOriginal ==
  (row.parsed /\ (rowMode = "array" \/ NamesDistinct))
    => /\ Framing
       /\ ColumnValues = values

\* C17, as the code has it: the framing, and decoding the row built by
\* createDataRowBuffer(values) yields in column order, for each value, what the
\* converter of the column's type makes of it: the value itself in a VARCHAR
\* column, the number it writes in an INTEGER column.
C17_RowDecoding ==
  row.parsed
    => /\ Framing
       /\ (rowMode = "array" \/ NamesDistinct)
            => ColumnValues = [i \in 1..Len(fields) |-> Converted(fields[i].typeOid, values[i])]

\* A decoded row of nine VARCHAR columns, so that its bitmap has two bytes:
\* the first column null, the second the empty string, the ninth a character
\* of two bytes.
C17_Witness ==
  /\ row.parsed
  /\ rowMode = "array"
  /\ Len(fields) = 9
  /\ \A i \in 1..9 : fields[i].typeOid = VARCHAR
  /\ values[1] = Null
  /\ values[2] = Str(<<>>)
  /\ values[9] = Str(<<233>>)
  /\ row.value[9] = Str(<<233>>)
  /\ Len(data.bytes) = 2 + 4 + (4 + 2)

\* The last column (from 1) that has the name of property k of the object row.
LastNamed(name) ==
  CHOOSE i \in 1..Len(fields) :
    /\ fields[i].name = name
    /\ \A j \in 1..Len(fields) : fields[j].name = name => j <= i

\* C18: for a result in which columns share a name, an array row has exactly
\* one element per column, in column order, and an object row has exactly one
\* property per distinct column name, holding the value of the last column of
\* that name.
C18_DuplicateNames ==
  (row.parsed /\ ~NamesDistinct)
    => IF rowMode = "array"
       THEN row.value = [i \in 1..Len(fields) |-> Converted(fields[i].typeOid, values[i])]
       ELSE /\ {row.value[k].name : k \in 1..Len(row.value)}
                 = {fields[i].name : i \in 1..Len(fields)}
            /\ Len(row.value) = Cardinality({fields[i].name : i \in 1..Len(fields)})
            /\ \A k \in 1..Len(row.value) :
                 LET i == LastNamed(row.value[k].name)
                 IN row.value[k].value = Converted(fields[i].typeOid, values[i])

\* Two INTEGER columns of the same name holding 1 and 22, decoded to an
\* object row: its one property holds 22.
C18_Witness ==
  /\ row.parsed
  /\ rowMode = "object"
  /\ Len(fields) = 2
  /\ fields[1].name = fields[2].name
  /\ fields[1].typeOid = INTEGER
  /\ values = <<Str(<<49>>), Str(<<50, 50>>)>>
  /\ row.value = <<[name |-> fields[1].name, value |-> Num(22)]>>

\* In the step taken a Session became available: a release() ran to its end
\* without discarding the Connection, or the available list grew.
MadeAvailable ==
  \/ \E c \in Callers : ReleasedIn(c)
  \/ Len(availableConnections') > Len(availableConnections)

\* C19: a queued pending acquire is resolved as soon as a Session becomes
\* available, through release() or through a background creation (initial
\* fill or backfill): a step that makes a Session available while requests
\* are queued gives it to the oldest of them; and a queued request is
\* rejected with the timeout failure only when no Session is available to it
\* at its deadline.
C19_PendingResolvedWhenAvailable ==
  [][/\ (pendingAcquires # <<>> /\ MadeAvailable)
          => pc'[Head(pendingAcquires)] \in {"holding", "querying"}
     /\ \A c \in Callers :
          (last'.who = {c} /\ last'.out = "Acquire timeout" /\ pc[c] = "pending")
          => availableConnections = <<>>]_vars

\* The step taken resumed caller c's acquire() after its own createConnection().
CreationSettled(c) == pc[c] = "acq_creating" /\ pc'[c] # "acq_creating"

\* C20: an acquire() that finds no available Session and total < max creates
\* a Session of its own.  When the creation succeeds the caller gets the new
\* Session, which is recorded in the map and not placed in the available list;
\* when it fails, the failure is rethrown to the caller if the pool then has
\* no entry at all, and otherwise the caller is queued as a pending request
\* with its deadline timer armed.
C20_AcquireCreates ==
  [][\A c \in Callers :
       /\ (/\ pc[c] = "idle" /\ pc'[c] # "idle"
           /\ availableConnections = <<>>
           /\ Len(connections) < options.max)
          => pc'[c] = "acq_creating" /\ UNCHANGED <<connections, availableConnections>>
       /\ CreationSettled(c)
          => \/ /\ pc'[c] \in {"holding", "querying"}
                /\ connections' = Append(connections, NewEntry)
                /\ cconn'[c] = Len(connections')
                /\ availableConnections' = availableConnections
                /\ cconn'[c] \notin Range(availableConnections')
             \/ /\ pc'[c] = "idle"
                /\ last' = Settled({c}, "create failed")
                /\ Len(connections) = 0
                /\ UNCHANGED <<connections, availableConnections, pendingAcquires, timers>>
             \/ /\ pc'[c] = "pending"
                /\ Len(connections) > 0
                /\ pendingAcquires' = Append(pendingAcquires, c)
                /\ c \in timers' /\ waited'[c] = 0
                /\ UNCHANGED <<connections, availableConnections>>]_vars

\* A caller whose own creation failed waits in the queue of a pool that is
\* below max and has nothing available, while another caller holds the one
\* Session.
C20_Witness ==
  /\ Open
  /\ options.max = 2
  /\ Len(connections) = 1
  /\ availableConnections = <<>>
  /\ initInFlight = 0 /\ backfillInFlight = 0
  /\ \E c, d \in Callers :
       /\ pc[c] = "pending" /\ waited[c] = 0 /\ c \in timers
       /\ pendingAcquires = <<c>>
       /\ pc[d] = "holding" /\ cconn[d] = 1 /\ connections[1].createdAgo = 0
       /\ \A e \in Callers \ {c, d} : pc[e] = "idle"

\* C21: with validateOnBorrow, acquire() returns no Session whose probe query
\* failed.  A Session under probe is out of the available list (it was taken
\* from its head before the probe began); the acquire() returns straight from
\* a probe only when the probe succeeded, and then returns the probed Session;
\* a failed probe removes the Session from the entry map, and the acquire()
\* goes on to probe the next available Session or, when none is left, to
\* create one.
C21_BorrowValidation ==
  /\ [](\A c \in Callers :
          pc[c] = "acq_validating" => cconn[c] \notin Range(availableConnections))
  /\ [][\A c \in Callers :
          /\ (pc[c] = "idle" /\ pc'[c] = "acq_validating")
             => /\ cconn'[c] = Head(availableConnections)
                /\ availableConnections' = Tail(availableConnections)
          /\ (pc[c] = "acq_validating" /\ pc'[c] \in {"holding", "querying"})
             => /\ AcquireValidated(c, TRUE)
                /\ cconn'[c] = cconn[c]
                /\ connections' = Touch(connections, cconn[c])
          /\ AcquireValidated(c, FALSE)
             => /\ pc'[c] \notin {"holding", "querying"}
                /\ InMap(connections, cconn[c])
                     => connections' = DropAt(connections, cconn[c])
                /\ IF availableConnections # <<>>
                   THEN /\ pc'[c] = "acq_validating"
                        /\ cconn'[c] = IF InMap(connections, cconn[c])
                                     THEN Renamed(Head(availableConnections), cconn[c])
                                     ELSE Head(availableConnections)
                        /\ Len(availableConnections') = Len(availableConnections) - 1
                   ELSE pc'[c] = "acq_creating"]_vars

\* C22: with validateOnReturn, a release(s) whose probe query fails, on a
\* Session s that is still an entry of the pool, removes s from the pool (and
\* closes it): total decreases by exactly one, s is neither placed in the
\* available list nor handed to a pending request, and the release() returns.
C22_ReturnValidation ==
  [][\A c \in Callers :
       (ReleaseValidated(c, FALSE) /\ InMap(connections, cconn[c]))
       => /\ connections' = DropAt(connections, cconn[c])
          /\ getStats.total' = getStats.total - 1
          /\ cconn[c] \notin Range(availableConnections)
          /\ Len(availableConnections') = Len(availableConnections)
          /\ pendingAcquires' = pendingAcquires
          /\ timers' = timers
          /\ \A d \in Callers \ {c} : pc'[d] = pc[d]
          /\ pc'[c] = "idle" /\ cconn'[c] = 0
          /\ last'.who = {c}]_vars

\* The one Session of the pool was released with a request pending, its probe
\* failed, and it is gone: the request is still queued and the pool is empty.
C22_Witness ==
  /\ options.validateOnReturn
  /\ Open
  /\ last.out = "released"
  /\ pendingAcquires # <<>>
  /\ connections = <<>>
  /\ availableConnections = <<>>

\* C23: the idle-eviction step of a maintenance tick removes only Sessions
\* that are in the available list and whose last use is older than
\* idleTimeout, and it never takes the pool below min: with total >= min
\* before the step total >= min after it, and with total <= min before it
\* nothing is removed.
C23_IdleEvictionKeepsMin ==
  [][MaintenanceTick
       => LET victims == IdleVictims(1, <<>>, Now)
              after == removeAll(Now, victims)
          IN /\ \A k \in 1..Len(victims) :
                  /\ victims[k] \in Range(availableConnections)
                  /\ connections[victims[k]].lastUsedAgo > IdleTimeout
             /\ Len(after.conns) = Len(connections) - Len(victims)
             /\ Len(connections) >= options.min => Len(after.conns) >= options.min
             /\ Len(connections) <= options.min => victims = <<>>
             /\ Len(connections') <= Len(after.conns)]_vars

\* A maintenance tick has removed a Session and left the pool at min with an
\* available Session that is idle for longer than idleTimeout and not expired.
C23_Witness ==
  /\ last.out = "maintenance"
  /\ options.min = 1
  /\ Len(connections) = 1
  /\ availableConnections = <<1>>
  /\ connections[1].lastUsedAgo > IdleTimeout
  /\ connections[1].createdAgo <= ConnectionTimeout
  /\ backfillInFlight = 0

\* C24: no maintenance tick removes or closes a Session that is in use.  A
\* Session held by a caller, in use by its query or under validation for it is
\* still an entry of the pool after the tick, as open as before, however old
\* or long unused it is.
C24_MaintenanceSparesInUse ==
  [][MaintenanceTick
       => \A c \in Callers :
            (/\ pc[c] \in {"holding", "querying", "acq_validating", "rel_validating"}
             /\ InMap(connections, cconn[c]))
            => /\ InMap(connections', cconn'[c])
               /\ connections'[cconn'[c]] = connections[cconn[c]]
               /\ cconn'[c] \notin Range(availableConnections')]_vars

\* A maintenance tick of a pool with min = 0 has evicted a Session while a
\* caller holds one that is older than connectionTimeout.
C24_Witness ==
  /\ last.out = "maintenance"
  /\ options.min = 0
  /\ \E c \in Callers :
       /\ pc[c] = "holding"
       /\ InMap(connections, cconn[c])
       /\ connections[cconn[c]].createdAgo > ConnectionTimeout
       /\ ~connections[cconn[c]].closed

\* C25: a maintenance tick that finds total < min on an open pool starts
\* min - total creations, and each Session they create is added to the
\* available list; a creation that completes when the pool is closing or
\* closed is discarded: the pool keeps no entry for its Session, which counts
\* neither in total nor in available.
C25_BackfillDiscardsAfterEnd ==
  [][/\ (MaintenanceTick /\ Open /\ Len(connections') < options.min)
          => backfillInFlight' = backfillInFlight + (options.min - Len(connections'))
     /\ (BackfillCreated(TRUE) /\ Open)
          => /\ connections' = Append(connections, NewEntry)
             /\ availableConnections' = Append(availableConnections, Len(connections'))
     /\ (BackfillCreated(TRUE) /\ ~Open)
          => /\ getStats.total' = getStats.total
             /\ getStats.available' = getStats.available]_vars

\* C26: end() stops the maintenance timer.  Once end() has been called, at
\* whatever point of the constructor's initial fill, no maintenance tick runs
\* and the timer is not started (again).
C26_NoMaintenanceAfterEnd ==
  [][/\ MaintenanceTick => Open
     /\ ~Open => ~evictionTimer']_vars

\* The acknowledgment points of the handshake after version negotiation, and
\* the replies the protocol defines for each.
AckPoints == {"database", "security", "tls confirm", "user", "protocol", "pid", "client type"}

DefinedReplies(p) ==
  CASE p = "security" -> {AckN, AckS, AckE}
    [] p \in {"tls confirm", "protocol"} -> {AckN, AckE}
    [] OTHER -> {AckN}

\* The kinds of message the handshake writes.
HandshakeMessages ==
  {"version", "database", "security", "ssl connect", "user", "protocol", "pid",
   "client type", "done", "credential"}

\* C27: at every acknowledgment point of the handshake (database, security
\* negotiation, SSL-connect confirmation, user, protocol version, process id,
\* client type) a byte other than the replies defined for that point makes
\* connect() reject; the failure is terminal: the step writes nothing, and a
\* failed handshake stays failed and writes no handshake message.
C27_UnexpectedAckIsTerminal ==
  [][/\ (/\ phase \in AckPoints /\ phase' # phase
         /\ buffer # <<>> /\ Head(buffer).b \notin DefinedReplies(phase))
          => /\ phase' = "failed"
             /\ connectPromise'.state = "rejected"
             /\ written' = written
     /\ phase = "failed"
          => /\ phase' = "failed"
             /\ \A k \in (Len(written) + 1)..Len(written') :
                  written'[k].m \notin HandshakeMessages]_vars

\* The version of the proposal written last.
LastProposed == written[LastWritten("version")].n

\* C28: version negotiation.  The first proposal is the highest known version,
\* CP_VERSION_6.  With the socket open, on the reply 'N' the version proposed
\* last becomes the negotiated version and negotiation ends (the database
\* field is sent next); on 'M' the next byte is read as a digit d, and the
\* client proposes d, or fails with InterfaceError and sends nothing when d is
\* below CP_VERSION_2; on 'E' and on any other byte connect() fails with
\* InterfaceError and nothing is sent.
C28_VersionNegotiation ==
  [][/\ (phase = "tcp" /\ phase' = "version")
          => written' = Append(written, Wrote("version", CP_VERSION_6))
     /\ (phase = "version" /\ phase' # "version" /\ buffer # <<>> /\ socket)
          => LET b == Head(buffer).b
             IN IF b = AckN
                THEN /\ hsVersion' = LastProposed
                     /\ phase' = "database"
                     /\ written' = Append(written, Wrote("database", 0))
                ELSE IF b = AckM
                THEN /\ phase' = "version digit"
                     /\ UNCHANGED <<written, hsVersion, connectPromise>>
                ELSE /\ phase' = "failed"
                     /\ UNCHANGED <<written, hsVersion>>
                     /\ connectPromise.state = "pending"
                          => connectPromise' = [state |-> "rejected", error |-> "InterfaceError"]
     /\ (phase = "version digit" /\ phase' # "version digit" /\ buffer # <<>> /\ socket)
          => LET d == Head(buffer).b - Digit0
             IN IF d < CP_VERSION_2
                THEN /\ phase' = "failed"
                     /\ UNCHANGED <<written, hsVersion>>
                     /\ connectPromise.state = "pending"
                          => connectPromise' = [state |-> "rejected", error |-> "InterfaceError"]
                ELSE /\ phase' = "version"
                     /\ written' = Append(written, Wrote("version", d))
                     /\ UNCHANGED <<hsVersion, connectPromise>>]_vars

\* The server turned down version 6 with 'M' and the digit 5 and accepted the
\* proposal of 5: the negotiated version is 5 and the database field follows.
C28_Witness ==
  /\ hsVersion = 5
  /\ Len(written) >= 3
  /\ written[1] = Wrote("version", CP_VERSION_6)
  /\ written[2] = Wrote("version", 5)
  /\ written[3] = Wrote("database", 0)

\* The fixed order of the handshake messages.
HandshakeOrder ==
  <<"version", "database", "security", "user", "protocol", "pid", "client type", "done">>

\* The messages the step taken writes.
NewlyWritten == {written'[k].m : k \in (Len(written) + 1)..Len(written')}

\* The step taken resumed the handshake in phase p with the byte b.
Acked(p, b) == phase = p /\ buffer # <<>> /\ Head(buffer).b = b

\* C29: the handshake messages are sent in the fixed order version proposal,
\* database, security level, user, protocol version pair, process id, client
\* type, done: each is written alone, in the step in which the handshake
\* leaves the wait for the reply to the message before it in this order, and
\* the handshake then waits for the reply to the message just written.  The
\* security negotiation is sent only in the step that reads the 'N'
\* acknowledging the database name; the user field only once the security
\* negotiation has been answered (or the SSL-connect confirmation acknowledged
\* with 'N'); each later field and the done marker only in the step that
\* reads the 'N' acknowledging the field before it.  After the done marker the
\* client waits for the authentication request: it goes on only with an
\* authentication message.
C29_HandshakeOrder ==
  [][/\ \A k \in 1..Len(HandshakeOrder) :
          HandshakeOrder[k] \in NewlyWritten
            => /\ Len(written') = Len(written) + 1
               /\ phase' = (IF k = Len(HandshakeOrder) THEN "auth" ELSE HandshakeOrder[k])
     /\ "version" \in NewlyWritten
          => phase = "tcp" \/ (phase = "version digit" /\ buffer # <<>>)
     /\ "database" \in NewlyWritten => Acked("version", AckN)
     /\ "security" \in NewlyWritten => Acked("database", AckN)
     /\ "user" \in NewlyWritten
          => \/ phase = "security" /\ buffer # <<>>
             \/ Acked("tls confirm", AckN)
     /\ "protocol" \in NewlyWritten => Acked("user", AckN)
     /\ "pid" \in NewlyWritten => Acked("protocol", AckN)
     /\ "client type" \in NewlyWritten => Acked("pid", AckN)
     /\ "done" \in NewlyWritten => Acked("client type", AckN)
     /\ (phase = "auth" /\ phase' \in {"auth ok", "ready"})
          => buffer # <<>> /\ Head(buffer).b = MESSAGE_TYPE_AUTHENTICATION]_vars

\* The handshake of an unencrypted Connection has sent all eight messages and
\* waits for the authentication request.
C29_Witness ==
  /\ phase = "auth"
  /\ written = <<Wrote("version", CP_VERSION_6), Wrote("database", 0),
                 Wrote("security", securityLevel), Wrote("user", 0), Wrote("protocol", 0),
                 Wrote("pid", 0), Wrote("client type", 0), Wrote("done", 0)>>

\* The authentication schemes for which the client sends a credential.
CredentialSchemes == {AUTH_REQ_PASSWORD, AUTH_REQ_MD5, AUTH_REQ_SHA256}

\* connect() rejects with err, unless its promise was settled before.
RejectsWith(err) ==
  /\ phase' = "failed"
  /\ written' = written
  /\ connectPromise'.state = "rejected"
  /\ connectPromise.state = "pending"
       => connectPromise' = [state |-> "rejected", error |-> err]

\* C30: authentication, with the socket open.  On the authentication request
\* with code OK no credential is sent and the handshake goes on; with PASSWORD,
\* MD5 or SHA256 exactly one credential message is sent, and the handshake
\* goes on only if the next message is an authentication message whose code
\* is OK, else connect() fails; with any other code connect() fails with an
\* InterfaceError (unsupported authentication) and no credential is sent.  A
\* credential is sent at no other point of the handshake, alone, and the
\* handshake then waits for the reply to it.
C30_Authentication ==
  [][/\ (/\ phase = "auth" /\ phase' # "auth" /\ socket /\ buffer # <<>>
         /\ Head(buffer).b = MESSAGE_TYPE_AUTHENTICATION)
          => LET code == Head(buffer).arg
             IN IF code = AUTH_REQ_OK
                THEN phase' = "ready" /\ UNCHANGED <<written, connectPromise>>
                ELSE IF code \in CredentialSchemes
                THEN /\ phase' = "auth ok"
                     /\ written' = Append(written, Wrote("credential", code))
                     /\ UNCHANGED connectPromise
                ELSE RejectsWith("InterfaceError")
     /\ (phase = "auth ok" /\ phase' # "auth ok" /\ socket /\ buffer # <<>>)
          => IF /\ Head(buffer).b = MESSAGE_TYPE_AUTHENTICATION
                /\ Head(buffer).arg = AUTH_REQ_OK
             THEN phase' = "ready" /\ UNCHANGED <<written, connectPromise>>
             ELSE /\ phase' = "failed"
                  /\ written' = written
                  /\ connectPromise'.state = "rejected"
     /\ "credential" \in NewlyWritten
          => /\ phase = "auth" /\ phase' = "auth ok"
             /\ Len(written') = Len(written) + 1]_vars

\* connect() has resolved after an MD5 request: the ninth message written is
\* the one credential.
C30_Witness ==
  /\ connectPromise.state = "resolved"
  /\ phase = "done"
  /\ Len(written) >= 9
  /\ written[9] = Wrote("credential", AUTH_REQ_MD5)
  /\ Cardinality({k \in 1..Len(written) : written[k].m = "credential"}) = 1

\* C31: an error-response message read at any point of a query's response
\* stream makes the execute() that reads it fail with a DatabaseError: the
\* call ends there and returns no result, whatever it had read before.  And
\* an execute() returns a result only in the step in which it reads a
\* ready-for-query message, with the transaction status of the Connection set
\* to the status byte of that message.
C31_ErrorResponseAborts ==
  [][\A i \in Queries :
       /\ (/\ calls[i].at = "reading" /\ calls'[i] # calls[i]
           /\ buffer # <<>> /\ Head(buffer).b = MESSAGE_TYPE_ERROR_RESPONSE)
          => /\ calls'[i].at = "done"
             /\ calls'[i].out = "DatabaseError"
       /\ (calls[i].at # "done" /\ calls'[i].out = "result")
          => /\ calls[i].at = "reading" /\ calls'[i].at = "done"
             /\ buffer # <<>>
             /\ Head(buffer).b = MESSAGE_TYPE_READY_FOR_QUERY
             /\ transactionStatus' = Head(buffer).arg]_vars

\* An execute() that had read a row description failed with DatabaseError,
\* and another returned a result that left the status "in a transaction block".
C31_Witness ==
  \E i, j \in Queries :
    /\ calls[i].at = "done" /\ calls[i].out = "DatabaseError" /\ calls[i].fields
    /\ calls[j].at = "done" /\ calls[j].out = "result"
    /\ transactionStatus = TRANSACTION_STATUS_IN_BLOCK

\* ---- Connection.execute(sql, params): what it sends --------------------------
\* Text is a sequence of characters.  The repository holds two revisions of
\* connection.ts: the current one puts the parameters into the text as SQL
\* literals and always uses the simple query protocol; the earlier one numbers
\* the placeholders and uses the extended protocol when there are parameters.
Bool(b) == [t |-> "boolean", s |-> <<>>, n |-> IF b THEN 1 ELSE 0]

\* String(param) of JavaScript, for the parameter values of the model.
String(param) ==
  CASE param.t = "string"  -> param.s
    [] param.t = "number"  -> <<SubSeq(<<"0", "1", "2", "3", "4", "5", "6", "7", "8", "9">>,
                                       param.n + 1, param.n + 1)[1]>>
    [] param.t = "boolean" -> IF param.n = 1 THEN <<"t", "r", "u", "e">>
                                             ELSE <<"f", "a", "l", "s", "e">>
    [] OTHER               -> <<"n", "u", "l", "l">>

\* param.replace(/'/g, "''")
RECURSIVE DoubleQuotes(_)
DoubleQuotes(s) ==
  IF s = <<>> THEN <<>>
  ELSE (IF Head(s) = "'" THEN <<"'", "'">> ELSE <<Head(s)>>) \o DoubleQuotes(Tail(s))

\* The replacement the current revision computes for one placeholder.
Literal(param) ==
  CASE param.t = "null"    -> <<"N", "U", "L", "L">>
    [] param.t = "string"  -> <<"'">> \o DoubleQuotes(param.s) \o <<"'">>
    [] param.t = "number"  -> String(param)
    [] param.t = "boolean" -> IF param.n = 1 THEN <<"T", "R", "U", "E">>
                                             ELSE <<"F", "A", "L", "S", "E">>

\* sql.replace(/\?/g, ...) of the current revision, paramIndex placeholders
\* already replaced; a placeholder beyond the parameters reads undefined.
RECURSIVE Substituted(_, _, _)
Substituted(text, ps, paramIndex) ==
  IF text = <<>> THEN <<>>
  ELSE IF Head(text) = "?"
       THEN (IF paramIndex + 1 <= Len(ps) THEN Literal(ps[paramIndex + 1])
                                          ELSE <<"N", "U", "L", "L">>)
            \o Substituted(Tail(text), ps, paramIndex + 1)
       ELSE <<Head(text)>> \o Substituted(Tail(text), ps, paramIndex)

\* sql.replace(/\?/g, () => `$${paramIndex++}`) of the earlier revision.
RECURSIVE Markers(_, _)
Markers(text, paramIndex) ==
  IF text = <<>> THEN <<>>
  ELSE IF Head(text) = "?"
       THEN <<"$">> \o String(Num(paramIndex)) \o Markers(Tail(text), paramIndex + 1)
       ELSE <<Head(text)>> \o Markers(Tail(text), paramIndex)

\* The messages: a type, the SQL text of a query or parse message, and the
\* parameters of a bind message, each a length and its bytes.
Msg(type, text, bound) == [type |-> type, text |-> text, bound |-> bound]

\* sendBind: null as length -1 without payload, anything else as its text.
Bound(ps) ==
  [i \in 1..Len(ps) |->
     IF ps[i].t = "null" THEN [length |-> -1, bytes |-> <<>>]
     ELSE [length |-> Len(String(ps[i])), bytes |-> String(ps[i])]]

executeSimple(text) == <<Msg("query", text, <<>>)>>

executeExtended(text, ps) ==
  <<Msg("parse", text, <<>>), Msg("bind", <<>>, Bound(ps)), Msg("describe", <<>>, <<>>),
    Msg("execute", <<>>, <<>>), Msg("sync", <<>>, <<>>)>>

\* execute() of the current revision, up to its wait for the response.
executeCurrent(text, ps) ==
  executeSimple(IF Len(ps) > 0 THEN Substituted(text, ps, 0) ELSE text)

\* execute() of the earlier revision, up to its wait for the response.
executeEarlier(text, ps) ==
  IF Len(ps) > 0 THEN executeExtended(Markers(text, 1), ps)
  ELSE executeSimple(Markers(text, 1))

ParamValues == {Null, Str(<<"o", "'">>), Num(7), Bool(TRUE)}

SeqsUpTo(S, n) == UNION {[1..k -> S] : k \in 0..n}

\* A Connection whose connect() has resolved.
Connected ==
  /\ securityLevel = 0
  /\ socket = TRUE
  /\ buffer = <<>>
  /\ connectionClosed = FALSE
  /\ transactionStatus = TRANSACTION_STATUS_IDLE
  /\ hsVersion = CP_VERSION_6
  /\ version = CP_VERSION_6
  /\ phase = "done"
  /\ connectPromise = [state |-> "resolved", error |-> "none"]
  /\ written = <<>>
  /\ served = 0
  /\ broken = FALSE
  /\ connects = 1
  /\ calls = [i \in Queries |-> NewCall]
  /\ did = "none"

StatementInit ==
  /\ InitWith(SmallestPool)
  /\ Connected
  /\ NoRow
  /\ NoReader
  /\ revision \in {"current", "earlier"}
  /\ sql \in SeqsUpTo({"?", "a"}, MaxSql)
  /\ params \in SeqsUpTo(ParamValues, MaxParams)
  /\ sentMessages = <<>>

StatementExecute ==
  /\ ~ExecuteRefused
  /\ sentMessages = <<>>
  /\ sentMessages' = IF revision = "current" THEN executeCurrent(sql, params)
                                     ELSE executeEarlier(sql, params)
  /\ UNCHANGED <<revision, sql, params>>

StatementNext ==
  \/ StatementExecute /\ UNCHANGED <<poolVars, connectionVars, rowVars, readerVars>>

StatementSpec == StatementInit /\ [][StatementNext]_vars

\* C32: execute(sql, params) with a non-empty params sends parse, bind,
\* describe, execute, sync in that order, the parse message carrying the SQL
\* with its placeholders replaced by numbered markers and the bind message the
\* parameters as text, a null as length -1 without payload; with no params it
\* sends the input SQL unchanged as one simple-query message.
C32_ParameterizedProtocol ==
  sentMessages # <<>> =>
    IF params # <<>>
    THEN /\ [i \in 1..Len(sentMessages) |-> sentMessages[i].type]
              = <<"parse", "bind", "describe", "execute", "sync">>
         /\ sentMessages[1].text = Markers(sql, 1)
         /\ Len(sentMessages[2].bound) = Len(params)
         /\ \A i \in 1..Len(params) :
              IF params[i] = Null THEN sentMessages[2].bound[i] = [length |-> -1, bytes |-> <<>>]
              ELSE sentMessages[2].bound[i].bytes = String(params[i])
    ELSE sentMessages = <<Msg("query", sql, <<>>)>>

\* ---- Connection.readBytes and waitForData -------------------------------------
\* The bytes the server sends are numbered in the order they arrive: byte k is
\* the number k.  The readers are the calls of readBytes; more than one can be
\* suspended at a time when calls of execute() overlap.
Readers == 1..NumReads

\* buffer.slice(from, to) of Node.js, for 0 <= from <= to.
Slice(buf, from, to) ==
  SubSeq(buf, from + 1, IF to < Len(buf) THEN to ELSE Len(buf))

\* A loop that stops as soon as anything is in the buffer.
EnoughAny(buf, count) == Len(buf) > 0

\* The loop condition of readBytes, negated.
Enough(buf, count) == Len(buf) >= count

\* The state readBytes works on: the buffer, the calls, the listeners and the
\* number of bytes handed out.
ReaderState == [buffer |-> buffer, reads |-> reads, waiters |-> waiters, consumed |-> consumed]

\* readBytes of call r from the top of its loop, with this.socket = sock: with
\* enough bytes it returns the first count of them and keeps the rest; else it
\* calls waitForData, which rejects without a socket and otherwise registers
\* its listeners.
readBytes(st, r, sock) ==
  LET count == st.reads[r].count
  IN IF Enough(st.buffer, count)
     THEN [st EXCEPT !.buffer = Slice(st.buffer, count, Len(st.buffer)),
                     !.reads[r].at = "returned",
                     !.reads[r].result = Slice(st.buffer, 0, count),
                     !.reads[r].start = st.consumed,
                     !.consumed = @ + Len(Slice(st.buffer, 0, count))]
     ELSE IF ~sock
          THEN [st EXCEPT !.reads[r].at = "failed",
                          !.reads[r].error = "ConnectionClosedError"]
          ELSE [st EXCEPT !.reads[r].at = "waiting", !.waiters = Append(@, r)]

\* The listeners of a 'data' event run in the order they were registered and
\* resolve their promises; the calls then resume in that order, each from the
\* top of its loop, before the next event.
RECURSIVE Resume(_, _, _)
Resume(st, woken, sock) ==
  IF woken = <<>> THEN st
  ELSE Resume(readBytes(st, Head(woken), sock), Tail(woken), sock)

\* The listeners of 'error' and 'end' reject every suspended call.
Rejected(rs, ws, err) ==
  [r \in Readers |->
     IF \E k \in 1..Len(ws) : ws[k] = r
     THEN [rs[r] EXCEPT !.at = "failed", !.error = err]
     ELSE rs[r]]

Became(st) ==
  /\ buffer' = st.buffer
  /\ reads' = st.reads
  /\ waiters' = st.waiters
  /\ consumed' = st.consumed

readerFrame == <<securityLevel, connectionClosed, transactionStatus, hsVersion, version,
                 phase, connectPromise, written, served, connects, calls, did>>

ReaderInit ==
  /\ InitWith(SmallestPool)
  /\ Connected
  /\ NoRow
  /\ NoStatement
  /\ NoReader

\* A call readBytes(count).
ReadBytes(r, count) ==
  /\ reads[r].at = "idle"
  /\ Became(readBytes([ReaderState EXCEPT !.reads[r].count = count], r, socket))
  /\ UNCHANGED <<socket, broken, arrived, ended, readerFrame>>

\* A 'data' event with a chunk of n bytes: the listener of connect() appends
\* it to the buffer, then the suspended calls resume.
SocketData(n) ==
  /\ socket /\ ~broken /\ ~ended
  /\ arrived + n <= MaxBytes
  /\ arrived' = arrived + n
  /\ Became(Resume([ReaderState EXCEPT !.buffer = @ \o [k \in 1..n |-> arrived + k],
                                       !.waiters = <<>>],
                   waiters, socket))
  /\ UNCHANGED <<socket, broken, ended, readerFrame>>

\* An 'error' event of the socket.
ReaderSocketError ==
  /\ socket /\ ~broken
  /\ broken' = TRUE
  /\ reads' = Rejected(reads, waiters, "OperationalError")
  /\ waiters' = <<>>
  /\ UNCHANGED <<socket, buffer, arrived, ended, consumed, readerFrame>>

\* An 'end' event: the server closed its side.
SocketEnd ==
  /\ socket /\ ~broken /\ ~ended
  /\ ended' = TRUE
  /\ reads' = Rejected(reads, waiters, "ConnectionClosedError")
  /\ waiters' = <<>>
  /\ UNCHANGED <<socket, buffer, broken, arrived, consumed, readerFrame>>

\* close(): the socket is destroyed and forgotten; the listeners of the
\* suspended calls stay on the destroyed socket, which emits neither 'data'
\* nor 'error' nor 'end'.
ReaderClose ==
  /\ socket /\ ~connectionClosed
  /\ socket' = FALSE
  /\ connectionClosed' = TRUE
  /\ UNCHANGED <<buffer, broken, securityLevel, transactionStatus, hsVersion, version,
                 phase, connectPromise, written, served, connects, calls, did, readerVars>>

ReaderNext ==
  \/ \E r \in Readers, count \in 0..MaxCount : ReadBytes(r, count)
       /\ UNCHANGED <<poolVars, rowVars, statementVars>>
  \/ \E n \in 1..MaxChunk : SocketData(n) /\ UNCHANGED <<poolVars, rowVars, statementVars>>
  \/ ReaderSocketError /\ UNCHANGED <<poolVars, rowVars, statementVars>>
  \/ SocketEnd /\ UNCHANGED <<poolVars, rowVars, statementVars>>
  \/ ReaderClose /\ UNCHANGED <<poolVars, rowVars, statementVars>>

ReaderSpec == ReaderInit /\ [][ReaderNext]_vars

\* C33: readBytes(n) returns exactly n bytes, the oldest bytes not yet
\* returned, in the order they arrived, and the bytes after them stay in the
\* buffer for the next read; a read that finds fewer than n bytes in the
\* buffer does not return before the missing ones arrive; an 'error' or 'end'
\* of the socket while reads are suspended fails each of them, with an
\* operational and a connection-closed error, and a failed read returns nothing.
C33_ReadExactly ==
  /\ [](/\ \A r \in Readers :
             /\ reads[r].at = "returned"
                => /\ Len(reads[r].result) = reads[r].count
                   /\ \A k \in 1..reads[r].count : reads[r].result[k] = reads[r].start + k
             /\ reads[r].at = "failed"
                => /\ reads[r].result = <<>>
                   /\ reads[r].error \in {"OperationalError", "ConnectionClosedError"}
             /\ reads[r].at = "waiting" => Len(buffer) < reads[r].count
        /\ buffer = [k \in 1..(arrived - consumed) |-> consumed + k])
  /\ [][\A r \in Readers :
          /\ (reads[r].at = "waiting" /\ broken' /\ ~broken)
             => reads'[r].at = "failed" /\ reads'[r].error = "OperationalError"
          /\ (reads[r].at = "waiting" /\ ended' /\ ~ended)
             => reads'[r].at = "failed" /\ reads'[r].error = "ConnectionClosedError"
          /\ (reads[r].at = "waiting" /\ reads'[r].at = "returned")
             => arrived' > arrived]_vars

\* A read of two bytes returned bytes 2 and 3 after another read had taken
\* byte 1, byte 4 stayed in the buffer, and a read of three bytes that was
\* suspended with it was failed by the 'end' of the socket.
C33_Witness ==
  \E r, s, u \in Readers :
    /\ reads[r].at = "returned" /\ reads[r].result = <<1>>
    /\ reads[s].at = "returned" /\ reads[s].result = <<2, 3>>
    /\ reads[u].at = "failed" /\ reads[u].count = 3
    /\ reads[u].error = "ConnectionClosedError"
    /\ buffer = <<4>>

\* C34: a Connection stays in sync after a failed query.  When execute(A) has
\* thrown DatabaseError, having read only messages of A's own response, a
\* call execute(B) made afterwards on the connected Connection, with no other
\* call running, never reads a message of A's response.
C34_InSyncAfterFailedQuery ==
  [][\A i, j \in Queries :
       (/\ i < j
        /\ phase = "done" /\ socket /\ ~broken
        /\ calls[i].at = "done" /\ calls[i].out = "DatabaseError" /\ calls[i].from = {i}
        /\ calls[j].at = "reading" /\ calls[j].alone)
       => i \notin calls'[j].from]_vars

\* C35: work conservation.  In every state of an open pool the queue of
\* pending acquire requests and the available list are not both non-empty.
C35_WorkConservation ==
  Open => ~(pendingAcquires # <<>> /\ availableConnections # <<>>)

\* ---- release() of a Connection that is not in use -----------------------------
\* A caller that holds nothing calls release(s) for a Connection s of the
\* available list, for instance a second time after it released s.  release()
\* runs as for any Connection of the map: optional validation, then hand-off
\* to the oldest pending request or a push on the available list.
ReleaseAgain(c, s) ==
  /\ pc[c] = "idle"
  /\ s \in Range(availableConnections)
  /\ Len(availableConnections) - Len(connections) < MaxSurplus
  /\ IF ~InMap(connections, s)
     THEN /\ last' = Settled({c}, "Connection does not belong to this pool")
          /\ UNCHANGED <<connections, availableConnections, pendingAcquires, timers, waited,
                         pc, op, cconn, result, queries>>
     ELSE IF options.validateOnReturn
     THEN /\ pc' = [pc EXCEPT ![c] = "rel_validating"]
          /\ op' = [op EXCEPT ![c] = "release"]
          /\ cconn' = [cconn EXCEPT ![c] = s]
          /\ result' = [result EXCEPT ![c] = "released"]
          /\ last' = Settled(Nobody, "none")
          /\ UNCHANGED <<queries, connections, availableConnections,
                         pendingAcquires, timers, waited>>
     ELSE /\ connections' = Touch(connections, s)
          /\ IF Len(pendingAcquires) > 0
             THEN LET p == HandOffTarget(pendingAcquires) IN
                  /\ pendingAcquires' = SpliceFirst(pendingAcquires, p)
                  /\ timers' = timers \ {p}
                  /\ waited' = [waited EXCEPT ![p] = 0]
                  /\ ReleaseSettle(c, "released", {p}, s, cconn)
                  /\ UNCHANGED availableConnections
             ELSE /\ availableConnections' = Append(availableConnections, s)
                  /\ ReleaseSettle(c, "released", {}, s, cconn)
                  /\ UNCHANGED <<pendingAcquires, timers, waited>>
  /\ UNCHANGED <<options, evictionTimer, closing, closed, initInFlight,
                 backfillInFlight, endsInFlight>>

\* Callers that acquire and release, and also release Connections they do not
\* hold, on a pool that does not validate; no time passes and end() is not called.
MisuseNext ==
  \/ \E c \in Callers : Acquire(c) /\ UNCHANGED <<connectionVars, rowVars, statementVars, readerVars>>
  \/ \E c \in Callers, ok \in BOOLEAN : AcquireCreated(c, ok) /\ UNCHANGED <<connectionVars, rowVars, statementVars, readerVars>>
  \/ \E c \in Callers : Release(c) /\ UNCHANGED <<connectionVars, rowVars, statementVars, readerVars>>
  \/ \E ok \in BOOLEAN : InitCreated(ok) /\ UNCHANGED <<connectionVars, rowVars, statementVars, readerVars>>
  \/ \E c \in Callers, s \in 1..MaxConns :
       ReleaseAgain(c, s) /\ UNCHANGED <<connectionVars, rowVars, statementVars, readerVars>>

MisuseInit ==
  /\ \E o \in ValidOptions : ~o.validateOnReturn /\ InitWith(o)
  /\ NewConnection(0)
  /\ NoRow
  /\ NoStatement
  /\ NoReader

MisuseSpec == MisuseInit /\ [][MisuseNext]_vars

\* C36: a release(s) of a Connection that is not in use does not corrupt the
\* pool: after it s is in the available list at most once, getStats().inUse is
\* not negative, and a pending request it handed s to is the only holder of s,
\* with s no longer in the available list.
C36_StrayReleaseHarmless ==
  [][\A c \in Callers, s \in 1..MaxConns :
       ReleaseAgain(c, s)
       => /\ Count(availableConnections', s) <= 1
          /\ getStats.inUse' >= 0
          /\ \A x \in Callers :
               (cconn'[x] = s /\ pc'[x] \in {"holding", "querying"} /\ pc[x] = "pending")
               => /\ s \notin Range(availableConnections')
                  /\ \A y \in Callers \ {x} : ~(cconn'[y] = s /\ pc'[y] \in {"holding", "querying"})]_vars

\* C37: Pool.execute settles with the outcome of its query.  When the query
\* on the acquired Connection resolves, execute() resolves with its result,
\* and when it rejects, execute() rejects with the query's error, whether the
\* release() in its finally block returns at once or after a validation, and
\* whatever end() did in between.
C37_ExecuteSettlesWithQueryOutcome ==
  [][\A c \in Callers :
       /\ \A ok \in BOOLEAN :
            QueryDone(c, ok)
            => /\ last'.who = {c}
                  => last'.out = (IF ok THEN "query result" ELSE "query error")
               /\ pc'[c] = "rel_validating"
                  => result'[c] = (IF ok THEN "query result" ELSE "query error")
       /\ (pc[c] = "rel_validating" /\ op[c] = "execute" /\ last'.who = {c})
          => last'.out = result[c]]_vars

\* C38: every pending acquire request is settled at most once, in exactly
\* one of three ways: release() hands it a Connection, its deadline timer
\* rejects it, or end() rejects it.  A request that leaves the pending state
\* is out of the queue and has no timer, and every entry of the queue and
\* every armed timer belongs to a request that is still pending, so a
\* request that was rejected is never handed a Connection later and a
\* request that was handed one is never rejected later.
C38_SettledOnce ==
  /\ [](\A c \in Callers :
          (c \in timers \/ c \in Range(pendingAcquires))
          => /\ pc[c] = "pending"
             /\ c \in timers
             /\ Count(pendingAcquires, c) = 1)
  /\ [][/\ \A c \in Callers :
             (pc[c] = "pending" /\ pc'[c] # "pending")
             => LET handed   == /\ pc'[c] \in {"holding", "querying"}
                                /\ c = Head(pendingAcquires)
                                /\ \E d \in Callers \ {c} :
                                     ReleasedIn(d) /\ cconn'[c] = cconn[d]
                    timedOut == /\ pc'[c] = "idle"
                                /\ last' = Settled({c}, "Acquire timeout")
                                /\ TimerDue(c)
                    byEnd    == /\ pc'[c] = "idle"
                                /\ c \in last'.who /\ last'.out = "Pool is closing"
                IN /\ c \notin timers'
                   /\ c \notin Range(pendingAcquires')
                   /\ handed \/ timedOut \/ byEnd
                   /\ ~(handed /\ timedOut) /\ ~(handed /\ byEnd) /\ ~(timedOut /\ byEnd)
        /\ \A c \in Callers :
             pc[c] \in {"holding", "querying", "rel_validating"}
             => ~(c \in last'.who /\ last'.out \in {"Acquire timeout", "Pool is closing"})]_vars

\* A request has just timed out while another is still queued and a caller
\* holds the Connection they were waiting for.
C38_Witness ==
  /\ last.out = "Acquire timeout"
  /\ pendingAcquires # <<>>
  /\ \E p \in Callers : pc[p] = "holding"

\* C39: the versions proposed during negotiation are strictly decreasing and
\* lie between CP_VERSION_2 and CP_VERSION_6: after a downgrade reply the
\* client proposes a version only if it is lower than the one it proposed
\* before, and the negotiated handshake version is between 2 and 6.
C39_ProposalsDecrease ==
  /\ [](hsVersion # 0 => hsVersion \in CP_VERSION_2..CP_VERSION_6)
  /\ [][\A k \in (Len(written) + 1)..Len(written') :
          written'[k].m = "version"
          => /\ written'[k].n \in CP_VERSION_2..CP_VERSION_6
             /\ phase = "version digit" => written'[k].n < version]_vars

\* C40: a failed connection attempt leaves nothing open.  In the step in which
\* connect() rejects, the socket is torn down; while the promise of connect()
\* is rejected nothing more is written to the transport, and an execute()
\* made then fails with ConnectionClosedError.
C40_FailedConnectLeavesNothingOpen ==
  [][/\ (connectPromise.state = "pending" /\ connectPromise'.state = "rejected")
          => ~socket'
     /\ connectPromise.state = "rejected"
          => /\ written' = written
             /\ \A i \in Queries :
                  (calls[i].at = "idle" /\ calls'[i].at # "idle")
                  => calls'[i].at = "done" /\ calls'[i].out = "ConnectionClosedError"]_vars

====
